---- MODULE Spec2Model ----
(***************************************************************************)
(* Logosaurus: the level-gated JSON Logger (Logger class, mod.ts) with its *)
(* default value serializer, and the pretty printer (cli/pretty-print.ts): *)
(* its line decoder and its renderer.                                      *)
(*                                                                         *)
(* A JavaScript string is modelled as the sequence of its characters, each *)
(* character a one-character TLA+ string, so that escaping, splitting and  *)
(* searching act on characters as the code's string operations do.         *)
(* A JavaScript value is a record with a kind field.                       *)
(***************************************************************************)
EXTENDS Integers, Sequences, FiniteSets, TLC

\* Number of Logger calls explored on one Logger, over every configuration.
MaxCalls == 1
\* Number of Logger calls explored in sequence on one Logger.
MaxSequence == 2
\* Largest element count of the typed arrays handed to the serializer.
MaxLen == 3
\* Number of chunks the pretty printer reads from its input.
MaxChunks == 3
\* The number of chunks the pretty printer reads when they hold records.
MaxLineChunks == 2

(***************************************************************************)
(* String literals of the source, spelled out as character sequences.      *)
(***************************************************************************)
Chars(s) ==
    CASE s = "trace" -> <<"t", "r", "a", "c", "e">>
      [] s = "debug" -> <<"d", "e", "b", "u", "g">>
      [] s = "info" -> <<"i", "n", "f", "o">>
      [] s = "warn" -> <<"w", "a", "r", "n">>
      [] s = "error" -> <<"e", "r", "r", "o", "r">>
      [] s = "fatal" -> <<"f", "a", "t", "a", "l">>
      [] s = "verbose" -> <<"v", "e", "r", "b", "o", "s", "e">>
      [] s = "level" -> <<"l", "e", "v", "e", "l">>
      [] s = "level_n" -> <<"l", "e", "v", "e", "l", "_", "n">>
      [] s = "timestamp" -> <<"t", "i", "m", "e", "s", "t", "a", "m", "p">>
      [] s = "namespace" -> <<"n", "a", "m", "e", "s", "p", "a", "c", "e">>
      [] s = "message" -> <<"m", "e", "s", "s", "a", "g", "e">>
      [] s = "context" -> <<"c", "o", "n", "t", "e", "x", "t">>
      [] s = "name" -> <<"n", "a", "m", "e">>
      [] s = "stack" -> <<"s", "t", "a", "c", "k">>
      [] s = "null" -> <<"n", "u", "l", "l">>
      [] s = "true" -> <<"t", "r", "u", "e">>
      [] s = "false" -> <<"f", "a", "l", "s", "e">>
      [] s = "function" -> <<"f", "u", "n", "c", "t", "i", "o", "n">>
      [] s = "bigint" -> <<"b", "i", "g", "i", "n", "t">>
      [] s = "symbol" -> <<"s", "y", "m", "b", "o", "l">>
      [] s = "(cannot stringify)" -> <<"(", "c", "a", "n", "n", "o", "t", " ", "s", "t", "r", "i", "n", "g", "i", "f", "y", ")">>
      [] s = "..." -> <<".", ".", ".">>
      [] s = "Int8Array" -> <<"I", "n", "t", "8", "A", "r", "r", "a", "y">>
      [] s = "Uint8Array" -> <<"U", "i", "n", "t", "8", "A", "r", "r", "a", "y">>
      [] s = "Uint8ClampedArray" -> <<"U", "i", "n", "t", "8", "C", "l", "a", "m", "p", "e", "d", "A", "r", "r", "a", "y">>
      [] s = "Int16Array" -> <<"I", "n", "t", "1", "6", "A", "r", "r", "a", "y">>
      [] s = "Uint16Array" -> <<"U", "i", "n", "t", "1", "6", "A", "r", "r", "a", "y">>
      [] s = "Int32Array" -> <<"I", "n", "t", "3", "2", "A", "r", "r", "a", "y">>
      [] s = "Uint32Array" -> <<"U", "i", "n", "t", "3", "2", "A", "r", "r", "a", "y">>
      [] s = "Float32Array" -> <<"F", "l", "o", "a", "t", "3", "2", "A", "r", "r", "a", "y">>
      [] s = "Float64Array" -> <<"F", "l", "o", "a", "t", "6", "4", "A", "r", "r", "a", "y">>
      [] s = "BigInt64Array" -> <<"B", "i", "g", "I", "n", "t", "6", "4", "A", "r", "r", "a", "y">>
      [] s = "BigUint64Array" -> <<"B", "i", "g", "U", "i", "n", "t", "6", "4", "A", "r", "r", "a", "y">>
      [] s = "ArrayBuffer" -> <<"A", "r", "r", "a", "y", "B", "u", "f", "f", "e", "r">>
      [] s = "WeakMap" -> <<"W", "e", "a", "k", "M", "a", "p">>
      [] s = "WeakSet" -> <<"W", "e", "a", "k", "S", "e", "t">>
      [] s = "Promise" -> <<"P", "r", "o", "m", "i", "s", "e">>
      [] s = "DataView" -> <<"D", "a", "t", "a", "V", "i", "e", "w">>
      [] s = "Symbol" -> <<"S", "y", "m", "b", "o", "l">>
      [] s = "1970-01-01T00:00:" -> <<"1", "9", "7", "0", "-", "0", "1", "-", "0", "1", "T", "0", "0", ":", "0", "0", ":">>
      [] s = "=>" -> <<"=", ">">>
      [] s = "Error" -> <<"E", "r", "r", "o", "r">>
      [] s = "TypeError" -> <<"T", "y", "p", "e", "E", "r", "r", "o", "r">>
      [] s = "boom" -> <<"b", "o", "o", "m">>
      [] s = "at f" -> <<"a", "t", " ", "f">>
      [] s = "k" -> <<"k">>
      [] s = "j" -> <<"j">>
      [] s = "a" -> <<"a">>
      [] s = "m" -> <<"m">>
      [] s = "f(a, b)" -> <<"f", "(", "a", ",", " ", "b", ")">>
      [] s = "function f(a, b) {}" -> <<"f", "u", "n", "c", "t", "i", "o", "n", " ", "f", "(", "a", ",", " ", "b", ")", " ", "{", "}">>
      [] s = "(a, b) => a" -> <<"(", "a", ",", " ", "b", ")", " ", "=", ">", " ", "a">>
      [] s = "x => x" -> <<"x", " ", "=", ">", " ", "x">>
      [] s = "class A {}" -> <<"c", "l", "a", "s", "s", " ", "A", " ", "{", "}">>
      [] s = "function (a) {}" -> <<"f", "u", "n", "c", "t", "i", "o", "n", " ", "(", "a", ")", " ", "{", "}">>
      [] s = "async x => x" -> <<"a", "s", "y", "n", "c", " ", "x", " ", "=", ">", " ", "x">>
      [] s = "function f" -> <<"f", "u", "n", "c", "t", "i", "o", "n", " ", "f">>
      [] s = "g" -> <<"g">>
      [] s = "A" -> <<"A">>
      [] s = "x" -> <<"x">>
      [] s = "f" -> <<"f">>
      [] s = "a, b" -> <<"a", ",", " ", "b">>
      [] s = "undefined" -> <<"u", "n", "d", "e", "f", "i", "n", "e", "d">>
      [] s = "log" -> <<"l", "o", "g">>
      [] s = "foo" -> <<"f", "o", "o">>
      [] s = "bar" -> <<"b", "a", "r">>
      [] s = "baz" -> <<"b", "a", "z">>
      [] s = "TRACE > " -> <<"T", "R", "A", "C", "E", " ", ">", " ">>
      [] s = "DEBUG > " -> <<"D", "E", "B", "U", "G", " ", ">", " ">>
      [] s = " INFO > " -> <<" ", "I", "N", "F", "O", " ", ">", " ">>
      [] s = " WARN > " -> <<" ", "W", "A", "R", "N", " ", ">", " ">>
      [] s = "ERROR > " -> <<"E", "R", "R", "O", "R", " ", ">", " ">>
      [] s = "FATAL > " -> <<"F", "A", "T", "A", "L", " ", ">", " ">>
      [] s = "my-app.db" -> <<"m", "y", "-", "a", "p", "p", ".", "d", "b">>
      [] s = "hello" -> <<"h", "e", "l", "l", "o">>
      [] s = "plain text" -> <<"p", "l", "a", "i", "n", " ", "t", "e", "x", "t">>
      [] s = "host" -> <<"h", "o", "s", "t">>
      [] s = "db1" -> <<"d", "b", "1">>
      [] s = "retry" -> <<"r", "e", "t", "r", "y">>

\* The characters of the decimal digits 0..9.
Digit(d) == <<"0", "1", "2", "3", "4", "5", "6", "7", "8", "9">>[d + 1]

RECURSIVE NatToChars(_)
\* Number::toString for a non-negative integer.
NatToChars(n) ==
    IF n < 10 THEN <<Digit(n)>> ELSE NatToChars(n \div 10) \o <<Digit(n % 10)>>

\* Number::toString / BigInt::toString for an integer.
IntToChars(n) == IF n < 0 THEN <<"-">> \o NatToChars(0 - n) ELSE NatToChars(n)

\* n written with at least w digits (padStart(w, "0")).
Pad(n, w) ==
    LET d == NatToChars(n)
    IN  [i \in 1..(IF Len(d) < w THEN w - Len(d) ELSE 0) |-> "0"] \o d

\* Date.prototype.toISOString for an instant t, in milliseconds after
\* 1970-01-01T00:00:00.000Z, within the first minute.
ToISOString(t) ==
    Chars("1970-01-01T00:00:") \o Pad((t \div 1000) % 60, 2) \o <<".">>
        \o Pad(t % 1000, 3) \o <<"Z">>

\* The least j >= i with s[j] = c, or 0 when there is none.
IndexOfFrom(s, c, i) ==
    LET hits == {j \in i..Len(s) : s[j] = c}
    IN  IF hits = {} THEN 0 ELSE CHOOSE j \in hits : \A h \in hits : j <= h

\* String.prototype.split cutting at the first separator only.
SplitFirst(s, c) ==
    IF IndexOfFrom(s, c, 1) = 0 THEN <<s>>
    ELSE <<SubSeq(s, 1, IndexOfFrom(s, c, 1) - 1),
           SubSeq(s, IndexOfFrom(s, c, 1) + 1, Len(s))>>

RECURSIVE Split(_, _)
\* String.prototype.split with a one-character separator.
Split(s, c) ==
    CHOOSE parts \in
        {IF i = 0 THEN <<s>>
         ELSE <<SubSeq(s, 1, i - 1)>> \o Split(SubSeq(s, i + 1, Len(s)), c) :
             i \in {IndexOfFrom(s, c, 1)}} : TRUE

\* Whether pat occurs in s at position i.
MatchAt(s, pat, i) ==
    /\ i >= 1
    /\ i + Len(pat) - 1 <= Len(s)
    /\ SubSeq(s, i, i + Len(pat) - 1) = pat

\* The characters the regular-expression class \s matches, of those modelled.
Whitespace == {" ", "\n", "\t", "\r"}

RECURSIVE SkipWhitespace(_, _)
\* The first position at or after i that holds no whitespace (\s*, greedy).
SkipWhitespace(s, i) ==
    IF i <= Len(s) /\ s[i] \in Whitespace THEN SkipWhitespace(s, i + 1) ELSE i

(***************************************************************************)
(* JavaScript values.                                                      *)
(***************************************************************************)
Undefined == [kind |-> "undefined"]
Null == [kind |-> "null"]
Bool(b) == [kind |-> "boolean", b |-> b]
Num(n) == [kind |-> "number", n |-> n, finite |-> TRUE]
\* NaN, Infinity and -Infinity.
NonFinite == [kind |-> "number", n |-> 0, finite |-> FALSE]
Str(s) == [kind |-> "string", s |-> s]
\* A plain object: its own enumerable properties <<key, value>>, in the order
\* in which the engine enumerates them.
Obj(props) == [kind |-> "object", props |-> props]
Arr(elems) == [kind |-> "array", elems |-> elems]
\* An Error: message and name are strings, stack a string or undefined.
Err(name, message, stack) ==
    [kind |-> "error", name |-> name, message |-> message, stack |-> stack]
\* An instance of an Error subclass that carries fields of its own: extra is
\* its own enumerable properties <<key, value>>, keys distinct. An own field
\* called name, message or stack is what v.name, v.message or v.stack reads;
\* the name, message and stack given are read for the others.
ErrWith(name, message, stack, extra) ==
    LET own(key, inherited) ==
            IF \E i \in 1..Len(extra) : extra[i][1] = Chars(key)
            THEN extra[CHOOSE i \in 1..Len(extra) : extra[i][1] = Chars(key)][2]
            ELSE inherited
    IN  [kind |-> "error", name |-> own("name", name),
         message |-> own("message", message), stack |-> own("stack", stack),
         extra |-> extra]
\* One of the eleven typed arrays, of the given element count.
TypedArray(type, length) == [kind |-> "typedarray", type |-> type, length |-> length]
ArrayBufferValue == [kind |-> "arraybuffer", shared |-> FALSE]
SharedArrayBufferValue == [kind |-> "arraybuffer", shared |-> TRUE]
\* A Date: a valid one holds the instant t, an invalid one holds NaN.
DateValue(valid, t) == [kind |-> "date", valid |-> valid, t |-> t]
\* A RegExp: its source as the source property reads it (a line terminator
\* of the pattern is written there as an escape), and its flags.
RegExpValue(source, flags) == [kind |-> "regexp", source |-> source, flags |-> flags]
\* A Map with string keys: its entries <<key, value>> in iteration order.
MapValue(entries) == [kind |-> "map", entries |-> entries]
SetValue(members) == [kind |-> "set", members |-> members]
WeakMapValue == [kind |-> "weakmap"]
WeakSetValue == [kind |-> "weakset"]
PromiseValue(state) == [kind |-> "promise", state |-> state]
DataViewValue == [kind |-> "dataview"]
\* A callable: its name property and the text Function.prototype.toString gives.
Fn(fname, src) == [kind |-> "function", fname |-> fname, src |-> src]
BigIntValue(n) == [kind |-> "bigint", big |-> n]
SymbolValue(description) == [kind |-> "symbol", description |-> description]
\* A property that holds the object, or an enclosing object, that contains it.
Cycle == [kind |-> "cycle"]

\* The outcome of a call that yields a value or throws.
Return(v) == [tag |-> "value", v |-> v, err |-> ""]
Throw(e) == [tag |-> "throw", v |-> Undefined, err |-> e]

(***************************************************************************)
(* Own property keys of an object (OrdinaryOwnPropertyKeys): array-index   *)
(* keys ascending first, then the other keys in insertion order.           *)
(***************************************************************************)
DigitChars == {"0", "1", "2", "3", "4", "5", "6", "7", "8", "9"}

DigitValue(c) == CHOOSE d \in 0..9 : Digit(d) = c

RECURSIVE CharsToNat(_)
CharsToNat(s) ==
    IF s = <<>> THEN 0
    ELSE 10 * CharsToNat(SubSeq(s, 1, Len(s) - 1)) + DigitValue(s[Len(s)])

\* A canonical numeric string: the key of an array index.
IsArrayIndex(k) ==
    /\ k # <<>>
    /\ \A i \in 1..Len(k) : k[i] \in DigitChars
    /\ (Len(k) > 1 => k[1] # "0")

KeyPosition(props, k) ==
    LET hits == {i \in 1..Len(props) : props[i][1] = k}
    IN  IF hits = {} THEN 0 ELSE CHOOSE i \in hits : TRUE

\* CreateDataProperty keeping every new key behind the keys set before it.
SetPropertyInsertionOrder(props, k, v) ==
    IF KeyPosition(props, k) # 0
    THEN [props EXCEPT ![KeyPosition(props, k)] = <<k, v>>]
    ELSE Append(props, <<k, v>>)

\* CreateDataProperty(obj, k, v): an existing key keeps its place and takes
\* the new value; a new array-index key goes among the index keys by value;
\* any other new key goes last.
SetProperty(props, k, v) ==
    LET at == KeyPosition(props, k)
    IN  IF at # 0 THEN [props EXCEPT ![at] = <<k, v>>]
        ELSE IF IsArrayIndex(k)
        THEN LET before == {i \in 1..Len(props) :
                               /\ IsArrayIndex(props[i][1])
                               /\ CharsToNat(props[i][1]) < CharsToNat(k)}
                 n == Cardinality(before)
             IN  SubSeq(props, 1, n) \o <<<<k, v>>>> \o SubSeq(props, n + 1, Len(props))
        ELSE Append(props, <<k, v>>)

RECURSIVE FromEntriesFrom(_, _, _)
\* The properties after the entries from position i on have been set.
FromEntriesFrom(entries, i, props) ==
    IF i > Len(entries) THEN props
    ELSE CHOOSE result \in
             {FromEntriesFrom(entries, i + 1, next) :
                  next \in {SetProperty(props, entries[i][1], entries[i][2])}} : TRUE

\* Object.fromEntries over the entries of a Map.
FromEntries(entries) == Obj(FromEntriesFrom(entries, 1, <<>>))

(***************************************************************************)
(* stringifyFunction and the default value serializer.                     *)
(***************************************************************************)
\* fnString.length > 50 ? fnString.substring(0, 47) + "..." : fnString
MaxFnString == 50
FnStringKept == 47

\* fnString.match(/function\s*\(([^)]*)\)/): the captured parameter text of
\* the leftmost match, as <<group>>, or <<>> when nothing matches.
MatchFunctionParams(s) ==
    LET open(i) == SkipWhitespace(s, i + Len(Chars("function")))
        ok(i) == /\ MatchAt(s, Chars("function"), i)
                 /\ open(i) <= Len(s)
                 /\ s[open(i)] = "("
                 /\ IndexOfFrom(s, ")", open(i) + 1) # 0
        hits == {i \in 1..Len(s) : ok(i)}
    IN  IF hits = {} THEN <<>>
        ELSE LET i == CHOOSE h \in hits : \A g \in hits : h <= g
             IN  <<SubSeq(s, open(i) + 1, IndexOfFrom(s, ")", open(i) + 1) - 1)>>

\* fnString.match(/\(([^)]*)\)\s*=>/): likewise.
MatchArrowParams(s) ==
    LET close(i) == IndexOfFrom(s, ")", i + 1)
        ok(i) == /\ s[i] = "("
                 /\ close(i) # 0
                 /\ MatchAt(s, Chars("=>"), SkipWhitespace(s, close(i) + 1))
        hits == {i \in 1..Len(s) : ok(i)}
    IN  IF hits = {} THEN <<>>
        ELSE LET i == CHOOSE h \in hits : \A g \in hits : h <= g
             IN  <<SubSeq(s, i + 1, close(i) - 1)>>

\* stringifyFunction(value). A named callable whose text holds no "(" makes
\* split("(")[1] undefined, and calling split on it throws a TypeError.
stringifyFunction(value) ==
    LET fnString == value.src
        parts == Split(fnString, "(")
        paramMatch == MatchFunctionParams(fnString)
        arrowMatch == MatchArrowParams(fnString)
    IN  IF value.fname # <<>>
        THEN IF Len(parts) < 2 THEN Throw("TypeError")
             ELSE Return(Str(value.fname \o <<"(">> \o Split(parts[2], ")")[1] \o <<")">>))
        ELSE IF paramMatch # <<>>
        THEN Return(Str(Chars("function") \o <<"(">> \o paramMatch[1] \o <<")">>))
        ELSE IF arrowMatch # <<>>
        THEN Return(Str(<<"(">> \o arrowMatch[1] \o <<")", " ">> \o Chars("=>")))
        ELSE IF Len(fnString) > MaxFnString
        THEN Return(Str(SubSeq(fnString, 1, FnStringKept) \o Chars("...")))
        ELSE Return(Str(fnString))

\* hastoString(value): a bigint and a symbol both inherit toString.
hastoString(v) == v.kind \in {"bigint", "symbol"}

\* BYTES_PER_ELEMENT of each typed array.
BytesPerElement(type) ==
    CASE type \in {"Int8Array", "Uint8Array", "Uint8ClampedArray"} -> 1
      [] type \in {"Int16Array", "Uint16Array"} -> 2
      [] type \in {"Int32Array", "Uint32Array", "Float32Array"} -> 4
      [] type \in {"Float64Array", "BigInt64Array", "BigUint64Array"} -> 8

\* The serializer copying the own fields of an Error after the three.
defaultJsonValueSerializerOwnFields(k, v) ==
    IF v.kind = "error"
    THEN Return(Obj(<<<<Chars("message"), v.message>>,
                      <<Chars("name"), v.name>>,
                      <<Chars("stack"), v.stack>>>>
                    \o (IF "extra" \in DOMAIN v THEN v.extra ELSE <<>>)))
    ELSE Return(v)

\* The serializer telling a shared buffer from a plain one.
defaultJsonValueSerializerShared(k, v) ==
    IF v.kind = "arraybuffer"
    THEN Return(Str((IF v.shared THEN <<"S", "h", "a", "r", "e", "d">> ELSE <<>>)
                        \o Chars("ArrayBuffer")))
    ELSE IF v.kind = "weakmap" THEN Return(Str(Chars("WeakMap")))
    ELSE IF v.kind = "weakset" THEN Return(Str(Chars("WeakSet")))
    ELSE IF v.kind = "promise" THEN Return(Str(Chars("Promise")))
    ELSE IF v.kind = "dataview" THEN Return(Str(Chars("DataView")))
    ELSE Return(v)

\* The serializer turning a Map into the Set of its entries.
defaultJsonValueSerializerSetOfEntries(k, v) ==
    IF v.kind = "map"
    THEN Return(SetValue([i \in 1..Len(v.entries) |->
                             Arr(<<Str(v.entries[i][1]), v.entries[i][2]>>)]))
    ELSE IF v.kind = "set" THEN Return(Arr(v.members))
    ELSE Return(v)

\* The serializer writing the byte length of a typed array.
defaultJsonValueSerializerByteLength(k, v) ==
    IF v.kind = "typedarray"
    THEN Return(Str(Chars(v.type) \o <<"(">>
                        \o IntToChars(v.length * BytesPerElement(v.type)) \o <<")">>))
    ELSE Return(v)

\* Logger.defaultJsonValueSerializer(_k, v): the instanceof chain, in order.
defaultJsonValueSerializer(k, v) ==
    IF v.kind = "error"
    THEN Return(Obj(<<<<Chars("message"), v.message>>,
                      <<Chars("name"), v.name>>,
                      <<Chars("stack"), v.stack>>>>))
    ELSE IF v.kind = "typedarray"
    THEN Return(Str(Chars(v.type) \o <<"(">> \o IntToChars(v.length) \o <<")">>))
    ELSE IF v.kind = "arraybuffer" THEN Return(Str(Chars("ArrayBuffer")))
    ELSE IF v.kind = "date"
    THEN IF v.valid THEN Return(Str(ToISOString(v.t))) ELSE Throw("RangeError")
    ELSE IF v.kind = "regexp"
    THEN Return(Str(<<"/">> \o v.source \o <<"/">> \o v.flags))
    ELSE IF v.kind = "map" THEN Return(FromEntries(v.entries))
    ELSE IF v.kind = "set" THEN Return(Arr(v.members))
    ELSE IF v.kind = "weakmap" THEN Return(Str(Chars("WeakMap")))
    ELSE IF v.kind = "weakset" THEN Return(Str(Chars("WeakSet")))
    ELSE IF v.kind = "promise" THEN Return(Str(Chars("Promise")))
    ELSE IF v.kind = "dataview" THEN Return(Str(Chars("DataView")))
    ELSE IF v.kind = "function" THEN stringifyFunction(v)
    ELSE IF v.kind \in {"bigint", "symbol"}
    THEN IF hastoString(v)
         THEN Return(Str(IF v.kind = "bigint" THEN IntToChars(v.big)
                         ELSE Chars("Symbol") \o <<"(">> \o v.description \o <<")">>))
         ELSE Return(Str(Chars(v.kind) \o Chars("(cannot stringify)")))
    ELSE Return(v)

(***************************************************************************)
(* Value serializers a caller configures in place of the default one.      *)
(***************************************************************************)
\* `${value}`: ToString of a value inside a template literal. A symbol
\* cannot be converted to a string: the conversion throws a TypeError.
\* (Non-finite numbers are not among the values these serializers are given.)
TemplateString(v) ==
    CASE v.kind = "string" -> Return(Str(v.s))
      [] v.kind = "number" -> Return(Str(IntToChars(v.n)))
      [] v.kind = "bigint" -> Return(Str(IntToChars(v.big)))
      [] v.kind = "boolean" -> Return(Str(IF v.b THEN Chars("true") ELSE Chars("false")))
      [] v.kind = "undefined" -> Return(Str(Chars("undefined")))
      [] v.kind = "function" -> Return(Str(v.src))
      [] v.kind = "symbol" -> Throw("TypeError")

\* typeof value === "object": null and every object that is not callable.
TypeofObject(v) ==
    v.kind \notin {"string", "number", "bigint", "boolean", "undefined", "function",
                   "symbol"}

\* The serializer of the test "custom json serialization should properly
\* serialize": objects are returned as they are, every other value becomes
\* the string `${key}=${value}`.
keyValueSerializer(key, value) ==
    IF TypeofObject(value) THEN Return(value)
    ELSE LET text == TemplateString(value)
         IN  IF text.tag = "throw" THEN text
             ELSE Return(Str(key \o <<"=">> \o text.v.s))

\* A serializer that fails on some values: it throws an Error for a boolean
\* and returns every other value as it is.
throwingSerializer(key, value) ==
    IF value.kind = "boolean" THEN Throw("Error") ELSE Return(value)

(***************************************************************************)
(* JSON.stringify(value, replacer), without indentation.                   *)
(***************************************************************************)
StringResult(s) == [tag |-> "string", s |-> s, err |-> ""]
UndefinedResult == [tag |-> "undefined", s |-> <<>>, err |-> ""]
ThrowResult(e) == [tag |-> "throw", s |-> <<>>, err |-> e]

\* QuoteChar that leaves a newline as it is.
QuoteCharRawNewline(c) ==
    CASE c = "\"" -> <<"\\", "\"">>
      [] c = "\\" -> <<"\\", "\\">>
      [] c = "\r" -> <<"\\", "r">>
      [] c = "\t" -> <<"\\", "t">>
      [] OTHER -> <<c>>

\* QuoteJSONString for one character: the quote, the backslash and the
\* control characters are escaped, every other character stands for itself.
QuoteChar(c) ==
    CASE c = "\"" -> <<"\\", "\"">>
      [] c = "\\" -> <<"\\", "\\">>
      [] c = "\n" -> <<"\\", "n">>
      [] c = "\r" -> <<"\\", "r">>
      [] c = "\t" -> <<"\\", "t">>
      [] OTHER -> <<c>>

RECURSIVE QuoteChars(_)
\* Every character quoted, in order (the left half, then the right half).
QuoteChars(s) ==
    IF s = <<>> THEN <<>>
    ELSE IF Len(s) = 1 THEN QuoteChar(s[1])
    ELSE QuoteChars(SubSeq(s, 1, Len(s) \div 2))
             \o QuoteChars(SubSeq(s, Len(s) \div 2 + 1, Len(s)))

\* QuoteJSONString writing every character as it is.
QuoteJSONStringRaw(s) == <<"\"">> \o s \o <<"\"">>

\* QuoteJSONString(s).
QuoteJSONString(s) == <<"\"">> \o QuoteChars(s) \o <<"\"">>

RECURSIVE Join(_, _)
\* The parts, separated by sep.
Join(parts, sep) ==
    IF parts = <<>> THEN <<>>
    ELSE IF Len(parts) = 1 THEN parts[1]
    ELSE parts[1] \o sep \o Join(Tail(parts), sep)

\* The value-serializer functions a Logger can hold, by name.
ApplySerializer(serializer, k, v) ==
    CASE serializer = "defaultJsonValueSerializer" -> defaultJsonValueSerializer(k, v)
      [] serializer = "keyValueSerializer" -> keyValueSerializer(k, v)
      [] serializer = "throwingSerializer" -> throwingSerializer(k, v)

\* The toJSON step of SerializeJSONProperty: of the values modelled only a
\* Date has a toJSON method; it gives the ISO string, or null when invalid.
ToJSON(v) ==
    IF v.kind = "date"
    THEN IF v.valid THEN Str(ToISOString(v.t)) ELSE Null
    ELSE v

\* The own enumerable string-keyed properties of an object that is neither a
\* plain object nor an array: the elements of a typed array (zero-filled),
\* none for the other built-in objects.
ExoticProperties(v) ==
    IF v.kind = "typedarray"
    THEN [i \in 1..v.length |->
             <<IntToChars(i - 1),
               IF v.type \in {"BigInt64Array", "BigUint64Array"}
               THEN BigIntValue(0) ELSE Num(0)>>]
    ELSE IF v.kind = "error" /\ "extra" \in DOMAIN v THEN v.extra
    ELSE <<>>

\* The first of the results that is a throw, or 0.
FirstThrow(results) ==
    LET thrown == {i \in 1..Len(results) : results[i].tag = "throw"}
    IN  IF thrown = {} THEN 0 ELSE CHOOSE i \in thrown : \A h \in thrown : i <= h

\* SerializeJSONObject, given the serialization of each property value: the
\* first throw ends the walk; otherwise a member "key":value is written for
\* every property whose value does not serialize to undefined.
ObjectText(props, results) ==
    LET kept == SelectSeq([i \in 1..Len(results) |-> i],
                          LAMBDA i : results[i].tag = "string")
        members == [j \in 1..Len(kept) |->
                       QuoteJSONString(props[kept[j]][1]) \o <<":">> \o results[kept[j]].s]
    IN  IF FirstThrow(results) # 0 THEN results[FirstThrow(results)]
        ELSE StringResult(<<"{">> \o Join(members, <<",">>) \o <<"}">>)

\* SerializeJSONArray, given the serialization of each element: an element
\* that serializes to undefined is written null.
ArrayText(results) ==
    LET elements == [i \in 1..Len(results) |->
                        IF results[i].tag = "undefined" THEN Chars("null")
                        ELSE results[i].s]
    IN  IF FirstThrow(results) # 0 THEN results[FirstThrow(results)]
        ELSE StringResult(<<"[">> \o Join(elements, <<",">>) \o <<"]">>)

RECURSIVE SerializeJSONProperty(_, _, _)
RECURSIVE SerializeJSONObject(_, _)
RECURSIVE SerializeJSONArray(_, _)

\* The steps of SerializeJSONProperty that follow the replacer call, for the
\* outcome of that call.
SerializeReplaced(replaced, serializer) ==
    IF replaced.tag = "throw" THEN ThrowResult(replaced.err)
    ELSE IF replaced.v.kind = "null" THEN StringResult(Chars("null"))
    ELSE IF replaced.v.kind = "boolean"
    THEN StringResult(IF replaced.v.b THEN Chars("true") ELSE Chars("false"))
    ELSE IF replaced.v.kind = "string" THEN StringResult(QuoteJSONString(replaced.v.s))
    ELSE IF replaced.v.kind = "number"
    THEN StringResult(IF replaced.v.finite THEN IntToChars(replaced.v.n)
                      ELSE Chars("null"))
    ELSE IF replaced.v.kind = "bigint" THEN ThrowResult("TypeError")
    ELSE IF replaced.v.kind \in {"undefined", "function", "symbol"} THEN UndefinedResult
    ELSE IF replaced.v.kind = "cycle" THEN ThrowResult("TypeError")
    ELSE IF replaced.v.kind = "array" THEN SerializeJSONArray(replaced.v.elems, serializer)
    ELSE IF replaced.v.kind = "object" THEN SerializeJSONObject(replaced.v.props, serializer)
    ELSE SerializeJSONObject(ExoticProperties(replaced.v), serializer)

\* SerializeJSONArray that does not call the replacer for the elements.
SerializeJSONArrayPlain(elems, serializer) ==
    CHOOSE result \in
        {ArrayText(results) :
             results \in {<<>> \o [i \in 1..Len(elems) |->
                                     SerializeReplaced(Return(ToJSON(elems[i])),
                                                       serializer)]}} : TRUE

\* SerializeJSONProperty(key, holder) for holder[key] = value: toJSON, then
\* the replacer, then the serialization of what the replacer returned. (The
\* outcome of the replacer call is bound once, as the one member of a set.)
SerializeJSONProperty(key, value, serializer) ==
    CHOOSE result \in
        {SerializeReplaced(replaced, serializer) :
             replaced \in {ApplySerializer(serializer, key, ToJSON(value))}} : TRUE

\* SerializeJSONObject: every property of the object, in order.
SerializeJSONObject(props, serializer) ==
    CHOOSE result \in
        {ObjectText(props, results) :
             results \in {<<>> \o [i \in 1..Len(props) |->
                                     SerializeJSONProperty(props[i][1], props[i][2],
                                                           serializer)]}} : TRUE

\* SerializeJSONArray: every element of the array, under its index as key.
SerializeJSONArray(elems, serializer) ==
    CHOOSE result \in
        {ArrayText(results) :
             results \in {<<>> \o [i \in 1..Len(elems) |->
                                     SerializeJSONProperty(IntToChars(i - 1), elems[i],
                                                           serializer)]}} : TRUE

\* JSON.stringify(value, replacer): the walk starts at the property "" of a
\* wrapper object holding value.
JSONStringify(value, serializer) == SerializeJSONProperty(<<>>, value, serializer)

\* Logger.defaultFormatLog(l, jsonValueSerializer).
defaultFormatLog(l, jsonValueSerializer) == JSONStringify(l, jsonValueSerializer)

\* obj[k] for a plain object: the value of the property, or undefined.
GetProperty(obj, k) ==
    IF KeyPosition(obj.props, k) = 0 THEN Undefined
    ELSE obj.props[KeyPosition(obj.props, k)][2]

\* The formatter of the test "custom log formatter should properly format":
\* JSON.stringify({ log: l }, serializer).
wrapFormatLog(l, serializer) ==
    JSONStringify(Obj(<<<<Chars("log"), l>>>>), serializer)

\* A formatter that writes no JSON and leaves the serializer alone:
\* (l) => l.level + " " + l.message.
plainFormatLog(l, serializer) ==
    StringResult(GetProperty(l, Chars("level")).s \o <<" ">>
                     \o GetProperty(l, Chars("message")).s)

\* A formatter that fails: it throws an Error for every record.
throwingFormatLog(l, serializer) == ThrowResult("Error")

\* The formatLog functions a Logger can hold, by name.
ApplyFormatLog(formatLog, l, jsonValueSerializer) ==
    CASE formatLog = "defaultFormatLog" -> defaultFormatLog(l, jsonValueSerializer)
      [] formatLog = "wrapFormatLog" -> wrapFormatLog(l, jsonValueSerializer)
      [] formatLog = "plainFormatLog" -> plainFormatLog(l, jsonValueSerializer)
      [] formatLog = "throwingFormatLog" -> throwingFormatLog(l, jsonValueSerializer)

(***************************************************************************)
(* The Logger.                                                             *)
(***************************************************************************)
VARIABLES
    configuration,        \* the LoggerConfiguration the constructor was given
    supportedLogLevels,   \* #supportedLogLevels
    includeTimestamp,     \* #includeTimestamp
    formatLog,            \* #formatLog
    jsonValueSerializer,  \* #jsonValueSerializer
    sink,                 \* the arguments of the console.log calls, in order
    clock,                \* the instant new Date() reads, in milliseconds
    calls,                \* history: what each Logger call did
    passed,               \* history: the context argument of each Logger call
    pending,              \* the number of Logger calls the program has yet to make
    normArg,              \* the value last handed to the default serializer
    normOut,              \* and what that call returned or threw
    partial,              \* pretty printer: the text that has seen no newline yet
    rendered,             \* history: the lines handed to prettyPrintLogObject
    chunks,               \* history: the chunks read from the input
    reads,                \* the number of chunks the input has yet to deliver
    noColor,              \* pretty printer: whether the colors are turned off
    printed,              \* the arguments of the pretty printer's console.log calls
    mainPromise           \* the promise of main: pending, fulfilled or rejected

vars ==
    <<configuration, supportedLogLevels, includeTimestamp, formatLog,
      jsonValueSerializer, sink, clock, calls, passed, pending, normArg, normOut,
      partial, rendered, chunks, reads, noColor, printed, mainPromise>>

decoderVars == <<partial, rendered, chunks, reads, noColor, printed, mainPromise>>

loggerVars ==
    <<configuration, supportedLogLevels, includeTimestamp, formatLog,
      jsonValueSerializer, sink, clock, calls, passed, pending>>

\* LOG_LEVELS, in ascending order from least to most severe.
LOG_LEVELS == <<"trace", "debug", "info", "warn", "error", "fatal">>

\* Array.prototype.indexOf: the zero-based index of x, or -1.
IndexOf(seq, x) ==
    LET hits == {i \in 1..Len(seq) : seq[i] = x}
    IN  IF hits = {} THEN -1
        ELSE (CHOOSE i \in hits : \A h \in hits : i <= h) - 1

\* Array.prototype.includes.
Includes(seq, x) == \E i \in 1..Len(seq) : seq[i] = x

\* An optional configuration field: given, or left undefined.
Given(v) == [given |-> TRUE, v |-> v]
NoLevel == [given |-> FALSE, v |-> ""]
NoFlag == [given |-> FALSE, v |-> FALSE]
NoFunction == [given |-> FALSE, v |-> ""]

\* a ?? b
Coalesce(option, default) == IF option.given THEN option.v ELSE default

RECURSIVE FilterFromIndex(_, _, _)
\* seq.filter((_, i) => i >= from), for the zero-based indices i, i+1, ...
FilterFromIndex(seq, i, from) ==
    IF i >= Len(seq) THEN <<>>
    ELSE (IF i >= from THEN <<seq[i + 1]>> ELSE <<>>)
             \o FilterFromIndex(seq, i + 1, from)

\* The constructor rejecting every level for an unrecognized minimum.
SupportedLogLevelsOfStrict(c) ==
    LET from == IndexOf(LOG_LEVELS, Coalesce(c.minLogLevel, "trace"))
    IN  FilterFromIndex(LOG_LEVELS, 0, IF from = -1 THEN Len(LOG_LEVELS) ELSE from)

\* The constructor leaving timestamps out unless they are asked for.
IncludeTimestampOfOff(c) == Coalesce(c.includeTimestamp, FALSE)

\* The constructor keeping the default serializer whatever is configured.
JsonValueSerializerOfDefault(c) == "defaultJsonValueSerializer"

\* The constructor keeping the default formatter whatever is configured.
FormatLogOfDefault(c) == "defaultFormatLog"

\* The constructor: the four private fields from the configuration.
SupportedLogLevelsOf(c) ==
    FilterFromIndex(LOG_LEVELS, 0, IndexOf(LOG_LEVELS, Coalesce(c.minLogLevel, "trace")))

IncludeTimestampOf(c) == Coalesce(c.includeTimestamp, TRUE)

FormatLogOf(c) == Coalesce(c.formatLog, "defaultFormatLog")

JsonValueSerializerOf(c) == Coalesce(c.jsonValueSerializer, "defaultJsonValueSerializer")

\* The configurations explored: every severity, an unrecognized name and no
\* minLogLevel at all; includeTimestamp true, false and left out.
Configurations ==
    [minLogLevel : {Given(LOG_LEVELS[i]) : i \in 1..Len(LOG_LEVELS)}
                       \cup {Given("verbose"), NoLevel},
     includeTimestamp : {Given(TRUE), Given(FALSE), NoFlag},
     formatLog : {NoFunction},
     jsonValueSerializer : {NoFunction}]

\* The record with ranks counted from one.
LogObjectOfRankFromOne(level, namespace, message, context, withTimestamp, now) ==
    LET literal == <<<<Chars("level"), Str(Chars(level))>>,
                     <<Chars("level_n"), Num(IndexOf(LOG_LEVELS, level) + 1)>>,
                     <<Chars("namespace"), Str(namespace)>>,
                     <<Chars("message"), Str(message)>>,
                     <<Chars("context"), context>>>>
    IN  Obj(IF withTimestamp
            THEN SetProperty(literal, Chars("timestamp"), Str(ToISOString(now)))
            ELSE literal)

\* The record with the timestamp written inside the object literal, third.
LogObjectOfTimestampThird(level, namespace, message, context, withTimestamp, now) ==
    Obj(<<<<Chars("level"), Str(Chars(level))>>,
          <<Chars("level_n"), Num(IndexOf(LOG_LEVELS, level))>>>>
        \o (IF withTimestamp
            THEN <<<<Chars("timestamp"), Str(ToISOString(now))>>>>
            ELSE <<>>)
        \o <<<<Chars("namespace"), Str(namespace)>>,
             <<Chars("message"), Str(message)>>,
             <<Chars("context"), context>>>>)

\* The object literal of #handleLog, then the timestamp assignment that
\* follows it when timestamps are included.
LogObjectOf(level, namespace, message, context, withTimestamp, now) ==
    LET literal == <<<<Chars("level"), Str(Chars(level))>>,
                     <<Chars("level_n"), Num(IndexOf(LOG_LEVELS, level))>>,
                     <<Chars("namespace"), Str(namespace)>>,
                     <<Chars("message"), Str(message)>>,
                     <<Chars("context"), context>>>>
    IN  Obj(IF withTimestamp
            THEN SetProperty(literal, Chars("timestamp"), Str(ToISOString(now)))
            ELSE literal)

\* What console.log writes for its argument.
ConsoleText(out) == IF out.tag = "undefined" THEN Chars("undefined") ELSE out.s

\* console.log putting the newest text first.
ConsoleLogFirst(output, text) == <<text>> \o output

\* console.log(text): one append to the sink.
ConsoleLog(output, text) == Append(output, text)

\* #handleLog catching what the formatter throws and writing nothing.
handleLogCatching(level, namespace, message, context) ==
    \E logObject \in {LogObjectOf(level, namespace, message, context,
                                  includeTimestamp, clock)} :
    \E out \in {ApplyFormatLog(formatLog, logObject, jsonValueSerializer)} :
        LET enabled == Includes(supportedLogLevels, level)
        IN  /\ sink' = IF enabled /\ out.tag # "throw"
                       THEN ConsoleLog(sink, ConsoleText(out))
                       ELSE sink
            /\ calls' = Append(calls,
                               [level |-> level,
                                namespace |-> namespace,
                                message |-> message,
                                at |-> clock,
                                built |-> IF enabled THEN <<logObject>> ELSE <<>>,
                                formats |-> IF enabled
                                            THEN <<[formatLog |-> formatLog,
                                                    l |-> logObject,
                                                    serializer |-> jsonValueSerializer,
                                                    out |-> out]>>
                                            ELSE <<>>,
                                threw |-> FALSE,
                                writes |-> Len(sink') - Len(sink)])
            /\ clock' = clock + 1
            /\ UNCHANGED <<configuration, supportedLogLevels, includeTimestamp,
                           formatLog, jsonValueSerializer, normArg, normOut>>
            /\ UNCHANGED decoderVars

\* #handleLog(level, namespace, message, context).
handleLog(level, namespace, message, context) ==
    \E logObject \in {LogObjectOf(level, namespace, message, context,
                                  includeTimestamp, clock)} :
    \E out \in {ApplyFormatLog(formatLog, logObject, jsonValueSerializer)} :
        LET enabled == Includes(supportedLogLevels, level)
        IN  /\ sink' = IF enabled /\ out.tag # "throw"
                       THEN ConsoleLog(sink, ConsoleText(out))
                       ELSE sink
            /\ calls' = Append(calls,
                               [level |-> level,
                                namespace |-> namespace,
                                message |-> message,
                                at |-> clock,
                                built |-> IF enabled THEN <<logObject>> ELSE <<>>,
                                formats |-> IF enabled
                                            THEN <<[formatLog |-> formatLog,
                                                    l |-> logObject,
                                                    serializer |-> jsonValueSerializer,
                                                    out |-> out]>>
                                            ELSE <<>>,
                                threw |-> enabled /\ out.tag = "throw",
                                writes |-> Len(sink') - Len(sink)])
            /\ clock' = clock + 1
            /\ UNCHANGED <<configuration, supportedLogLevels, includeTimestamp,
                           formatLog, jsonValueSerializer, normArg, normOut>>
            /\ UNCHANGED decoderVars

\* The default parameter value: context = {}.
DefaultContext(context) == IF context = Undefined THEN Obj(<<>>) ELSE context

\* trace(namespace, message, context = {}).
trace(namespace, message, context) ==
    /\ pending > 0
    /\ handleLog("trace", namespace, message, DefaultContext(context))
    /\ passed' = Append(passed, context)
    /\ pending' = pending - 1

\* debug(namespace, message, context = {}).
debug(namespace, message, context) ==
    /\ pending > 0
    /\ handleLog("debug", namespace, message, DefaultContext(context))
    /\ passed' = Append(passed, context)
    /\ pending' = pending - 1

\* info(namespace, message, context = {}).
info(namespace, message, context) ==
    /\ pending > 0
    /\ handleLog("info", namespace, message, DefaultContext(context))
    /\ passed' = Append(passed, context)
    /\ pending' = pending - 1

\* warn(namespace, message, context = {}).
warn(namespace, message, context) ==
    /\ pending > 0
    /\ handleLog("warn", namespace, message, DefaultContext(context))
    /\ passed' = Append(passed, context)
    /\ pending' = pending - 1

\* error(namespace, message, context = {}).
error(namespace, message, context) ==
    /\ pending > 0
    /\ handleLog("error", namespace, message, DefaultContext(context))
    /\ passed' = Append(passed, context)
    /\ pending' = pending - 1

\* fatal(namespace, message, context = {}).
fatal(namespace, message, context) ==
    /\ pending > 0
    /\ handleLog("fatal", namespace, message, DefaultContext(context))
    /\ passed' = Append(passed, context)
    /\ pending' = pending - 1

\* The arguments the Logger methods are called with.
\* A call without context.
PlainCall == <<Chars("a"), Chars("m"), Undefined>>

\* A call whose namespace, message, context keys and context strings hold
\* newlines, quotes and backslashes, with nested containers, Dates and a Map.
NewlineCall ==
    <<<<"a", "\n", "b">>, <<"\"", "m", "\\", "\n">>,
      Obj(<<<<Chars("k"), Str(<<"a", "\n", "\r">>)>>,
            <<<<"j", "\n">>,
              Arr(<<Num(-12), Null, DateValue(FALSE, 0), DateValue(TRUE, 1),
                    MapValue(<<<<Chars("k"), SetValue(<<Bool(TRUE)>>)>>>>)>>)>>>>)>>

\* A call whose context holds a one-parameter arrow function.
ArrowCall ==
    <<Chars("g"), Chars("m"), Obj(<<<<Chars("f"), Fn(Chars("f"), Chars("x => x"))>>>>)>>

\* A call whose context holds itself.
CyclicCall == <<Chars("a"), Chars("x"), Obj(<<<<Chars("k"), Cycle>>>>)>>

\* A call whose context holds an Error, a typed array, a bigint, a function,
\* a symbol, a regular expression and undefined.
KindsCall ==
    <<Chars("g"), Chars("x"),
      Obj(<<<<Chars("k"), Err(Str(Chars("Error")), Str(Chars("boom")), Undefined)>>,
            <<Chars("j"), TypedArray("Int8Array", 2)>>,
            <<Chars("a"), BigIntValue(-1)>>,
            <<Chars("f"), Fn(Chars("f"), Chars("function f(a, b) {}"))>>,
            <<Chars("x"), SymbolValue(Chars("a"))>>,
            <<Chars("m"), RegExpValue(<<"a", "\\", "n">>, Chars("g"))>>,
            <<Chars("g"), Undefined>>>>)>>

\* A call whose context is null.
NullCall == <<Chars("a"), Chars("m"), Null>>

\* A call whose context holds native JSON values only: strings with quotes,
\* backslashes and control characters, numbers, booleans, null, nested
\* arrays and objects, an empty key and an array-index key.
JsonCall ==
    <<Chars("g"), Chars("m"),
      Obj(<<<<Chars("k"), Str(<<"a", "\n", "\"", "\\", "\t", ",", "}">>)>>,
            <<Chars("j"), Arr(<<Num(-12), Num(0), Bool(TRUE), Bool(FALSE), Null,
                                Arr(<<>>), Obj(<<>>), Str(<<>>)>>)>>,
            <<Chars("m"), Obj(<<<<<<"0">>, Num(10)>>,
                                <<Chars("a"), Obj(<<<<<<"\"">>, Arr(<<Null>>)>>>>)>>>>)>>,
            <<<<>>, Num(5)>>>>)>>

CallArgs ==
    {PlainCall, NewlineCall, ArrowCall, CyclicCall, KindsCall, NullCall, JsonCall}

\* The pretty printer before it reads the first of the n chunks of its
\* input: let partial = "", nothing written, main not yet settled. The
\* colors are on unless the environment turns them off (NO_COLOR); a
\* program that reads no input (n = 0) is not the pretty printer.
InitDecoderWith(n) ==
    /\ partial = <<>>
    /\ rendered = <<>>
    /\ chunks = <<>>
    /\ reads = n
    /\ noColor \in (IF n = 0 THEN {FALSE} ELSE BOOLEAN)
    /\ printed = <<>>
    /\ mainPromise = "pending"

\* A Logger constructed with one of the configurations, before the first of
\* the n calls the program makes.
InitLogger(configurations, n) ==
    /\ configuration \in configurations
    /\ supportedLogLevels = SupportedLogLevelsOf(configuration)
    /\ includeTimestamp = IncludeTimestampOf(configuration)
    /\ formatLog = FormatLogOf(configuration)
    /\ jsonValueSerializer = JsonValueSerializerOf(configuration)
    /\ sink = <<>>
    /\ clock = 0
    /\ calls = <<>>
    /\ passed = <<>>
    /\ pending = n
    /\ normArg = Undefined
    /\ normOut = Return(Undefined)

\* A program that constructs a Logger and makes n calls; it reads no input.
InitWith(configurations, n) ==
    /\ InitLogger(configurations, n)
    /\ InitDecoderWith(0)

Init == InitWith(Configurations, MaxCalls)

Next ==
    \E a \in CallArgs :
        \/ trace(a[1], a[2], a[3])
        \/ debug(a[1], a[2], a[3])
        \/ info(a[1], a[2], a[3])
        \/ warn(a[1], a[2], a[3])
        \/ error(a[1], a[2], a[3])
        \/ fatal(a[1], a[2], a[3])

Spec == Init /\ [][Next]_vars

\* A Logger called several times in a row: with and without a minimum level,
\* with and without timestamps; calls that write and a call that throws.
SequenceConfigurations ==
    {c \in Configurations : c.minLogLevel \in {NoLevel, Given("warn")}}

SequenceArgs == {PlainCall, NewlineCall, ArrowCall}

InitSequence == InitWith(SequenceConfigurations, MaxSequence)

NextSequence ==
    \E a \in SequenceArgs :
        \/ trace(a[1], a[2], a[3])
        \/ debug(a[1], a[2], a[3])
        \/ info(a[1], a[2], a[3])
        \/ warn(a[1], a[2], a[3])
        \/ error(a[1], a[2], a[3])
        \/ fatal(a[1], a[2], a[3])

SpecSequence == InitSequence /\ [][NextSequence]_vars

(***************************************************************************)
(* A Logger configured with the caller's own formatter and serializer.     *)
(***************************************************************************)
\* The formatter and serializer pairs explored: each serializer under the
\* default formatter, each formatter over the default serializer, and the
\* test's formatter over the test's serializer.
HookPairs ==
    {<<NoFunction, s>> :
         s \in {NoFunction, Given("keyValueSerializer"), Given("throwingSerializer")}}
        \cup {<<f, NoFunction>> :
                  f \in {Given("wrapFormatLog"), Given("plainFormatLog"),
                         Given("throwingFormatLog")}}
        \cup {<<Given("wrapFormatLog"), Given("keyValueSerializer")>>}

\* Each pair without timestamps, as in the test of the formatter, and the
\* test's serializer under the default formatter with timestamps as well.
HookConfigurations ==
    {[minLogLevel |-> Given("warn"), includeTimestamp |-> Given(FALSE),
      formatLog |-> h[1], jsonValueSerializer |-> h[2]] : h \in HookPairs}
        \cup {[minLogLevel |-> Given("warn"), includeTimestamp |-> NoFlag,
                formatLog |-> NoFunction,
                jsonValueSerializer |-> Given("keyValueSerializer")]}

\* The call of the test "custom json serialization should properly
\* serialize": a string, a number and a boolean.
FlagCall ==
    <<Chars("g"), Chars("m"),
      Obj(<<<<Chars("foo"), Str(Chars("foo"))>>,
            <<Chars("bar"), Num(123)>>,
            <<Chars("baz"), Bool(TRUE)>>>>)>>

\* A call whose context holds values the default serializer rewrites: a
\* typed array, a Map and an Error.
MappedCall ==
    <<Chars("a"), Chars("x"),
      Obj(<<<<Chars("k"), TypedArray("Int8Array", 2)>>,
            <<Chars("j"), MapValue(<<<<Chars("k"), Num(1)>>>>)>>,
            <<Chars("m"), Err(Str(Chars("Error")), Str(Chars("boom")), Undefined)>>>>)>>

HookArgs == {PlainCall, FlagCall, MappedCall}

InitHooks == InitWith(HookConfigurations, MaxSequence)

NextHooks ==
    \E a \in HookArgs :
        \/ trace(a[1], a[2], a[3])
        \/ debug(a[1], a[2], a[3])
        \/ info(a[1], a[2], a[3])
        \/ warn(a[1], a[2], a[3])
        \/ error(a[1], a[2], a[3])
        \/ fatal(a[1], a[2], a[3])

SpecHooks == InitHooks /\ [][NextHooks]_vars

(***************************************************************************)
(* The default value serializer called on its own.                         *)
(***************************************************************************)
TypedArrayNames ==
    {"Int8Array", "Uint8Array", "Uint8ClampedArray", "Int16Array", "Uint16Array",
     "Int32Array", "Uint32Array", "Float32Array", "Float64Array", "BigInt64Array",
     "BigUint64Array"}

\* The text of a function longer than fifty characters with no parameter list.
LongSource == Chars("x => x") \o [i \in 1..MaxFnString |-> "x"]

Functions ==
    {Fn(Chars("f"), Chars("function f(a, b) {}")),
     Fn(Chars("f"), Chars("(a, b) => a")),
     Fn(Chars("f"), Chars("x => x")),
     Fn(Chars("f"), Chars("async x => x")),
     Fn(Chars("A"), Chars("class A {}")),
     Fn(<<>>, Chars("function (a) {}")),
     Fn(<<>>, Chars("(a, b) => a")),
     Fn(<<>>, Chars("x => x")),
     Fn(<<>>, LongSource)}

\* The values handed to the serializer: every kind it tells apart.
Values ==
    {TypedArray(t, n) : t \in TypedArrayNames, n \in 0..MaxLen}
        \cup {Err(Str(Chars(n)), Str(m), st) :
                  n \in {"Error", "TypeError"}, m \in {<<>>, Chars("boom")},
                  st \in {Undefined, Str(Chars("at f"))}}
        \cup {ErrWith(Str(Chars("TypeError")), Str(Chars("boom")), Str(Chars("at f")),
                      <<<<Chars("k"), Num(1)>>, <<Chars("name"), Str(Chars("x"))>>>>)}
        \cup {ArrayBufferValue, SharedArrayBufferValue, WeakMapValue, WeakSetValue,
              DataViewValue, Undefined, Null, NonFinite, Cycle}
        \cup {DateValue(TRUE, t) : t \in 0..MaxLen}
        \cup {DateValue(FALSE, 0)}
        \cup {RegExpValue(Chars("a"), <<>>), RegExpValue(<<"a", "\\", "n">>, Chars("g"))}
        \cup {MapValue(<<>>),
              MapValue(<<<<Chars("k"), Num(1)>>, <<Chars("j"), DateValue(TRUE, 0)>>>>),
              MapValue(<<<<Chars("k"), Num(1)>>, <<Chars("k"), Num(2)>>>>),
              MapValue(<<<<Chars("k"), Num(1)>>, <<Chars("j"), Num(2)>>,
                         <<Chars("k"), Num(3)>>>>),
              MapValue(<<<<Chars("k"), Num(1)>>, <<<<"1">>, Num(2)>>,
                         <<<<"0">>, Num(3)>>, <<<<"0", "1">>, Num(0)>>>>)}
        \cup {SetValue(<<>>), SetValue(<<Num(1), Str(Chars("a"))>>)}
        \cup {PromiseValue(st) : st \in {"pending", "fulfilled", "rejected"}}
        \cup Functions
        \cup {BigIntValue(n) : n \in -1..MaxLen}
        \cup {SymbolValue(<<>>), SymbolValue(Chars("a"))}
        \cup {Bool(TRUE), Bool(FALSE)}
        \cup {Num(n) : n \in -1..MaxLen}
        \cup {Str(<<>>), Str(Chars("a")), Str(<<"a", "\n">>)}
        \cup {Obj(<<>>), Obj(<<<<Chars("k"), Num(1)>>>>),
              Obj(<<<<Chars("k"), Cycle>>>>)}
        \cup {Arr(<<>>), Arr(<<Num(1), Undefined>>)}

\* Logger.defaultJsonValueSerializer(k, v), called directly.
Normalize(k, v) ==
    /\ normArg' = v
    /\ normOut' = defaultJsonValueSerializer(k, v)
    /\ UNCHANGED loggerVars
    /\ UNCHANGED decoderVars

\* The configuration that leaves every field out.
DefaultConfiguration ==
    [minLogLevel |-> NoLevel, includeTimestamp |-> NoFlag,
     formatLog |-> NoFunction, jsonValueSerializer |-> NoFunction]

InitNormalizer == InitWith({DefaultConfiguration}, 0)

\* The serializer is called with one of the values, or with the value it
\* has just returned.
NextNormalizer ==
    \E v \in Values \cup (IF normOut.tag = "value" THEN {normOut.v} ELSE {}) :
        Normalize(Chars("k"), v)

SpecNormalizer == InitNormalizer /\ [][NextNormalizer]_vars

(***************************************************************************)
(* JSON.parse(text). Numbers are integers, as everywhere in this model,    *)
(* and the string escapes are those QuoteJSONString writes, with \/, \b   *)
(* and \f left out (no text modelled holds them or a \u escape).          *)
(***************************************************************************)
\* The outcome of parsing a value: the value and the position behind it, or
\* a SyntaxError.
SyntaxError == [ok |-> FALSE, v |-> Undefined, next |-> 0]
Parsed(v, next) == [ok |-> TRUE, v |-> v, next |-> next]

\* The number of backslashes that stand in a row right before position j,
\* counted no further back than position i.
BackslashesBefore(s, i, j) ==
    IF j <= i \/ s[j - 1] # "\\" THEN 0
    ELSE Cardinality({n \in 1..(j - i) : \A h \in (j - n)..(j - 1) : s[h] = "\\"})

\* The position of the quote that closes the string whose characters start
\* at i, or 0 when the text ends before it: the first quote that no
\* backslash escapes.
StringEnd(s, i) ==
    LET closes == {j \in i..Len(s) :
                      s[j] = "\"" /\ BackslashesBefore(s, i, j) % 2 = 0}
    IN  IF closes = {} THEN 0 ELSE CHOOSE j \in closes : \A h \in closes : j <= h

\* The character an escape sequence \c stands for.
Unescaped(c) ==
    CASE c = "\"" -> "\""
      [] c = "\\" -> "\\"
      [] c = "n" -> "\n"
      [] c = "r" -> "\r"
      [] c = "t" -> "\t"

\* The characters of a string from the text between its quotes: an escape
\* becomes its character; a control character written as it is, an unknown
\* escape, or a backslash with nothing behind it, is a syntax error.
Unescape(body) ==
    LET escaped(h) == BackslashesBefore(body, 1, h) % 2 = 1
        opens(h) == body[h] = "\\" /\ ~escaped(h)
        kept == SelectSeq([h \in 1..Len(body) |-> h], LAMBDA h : ~opens(h))
        valid == /\ \A h \in 1..Len(body) :
                        IF escaped(h) THEN body[h] \in {"\"", "\\", "n", "r", "t"}
                        ELSE body[h] \notin {"\n", "\r", "\t"}
                 /\ (body # <<>> => ~opens(Len(body)))
    IN  IF valid
        THEN [ok |-> TRUE,
              s |-> [j \in 1..Len(kept) |->
                        IF escaped(kept[j]) THEN Unescaped(body[kept[j]])
                        ELSE body[kept[j]]]]
        ELSE [ok |-> FALSE, s |-> <<>>]

\* A string, whose opening quote is at i.
ParseString(s, i) ==
    LET close == StringEnd(s, i + 1)
        chars == Unescape(SubSeq(s, i + 1, close - 1))
    IN  IF close = 0 \/ ~chars.ok THEN SyntaxError
        ELSE Parsed(Str(chars.s), close + 1)

\* The first position at or after i that holds no digit.
DigitsEnd(s, i) ==
    CHOOSE j \in i..(Len(s) + 1) :
        /\ j = Len(s) + 1 \/ s[j] \notin DigitChars
        /\ \A h \in i..(j - 1) : s[h] \in DigitChars

\* A number that starts at i: an optional minus sign, then 0 or digits that
\* do not start with 0.
ParseNumber(s, i) ==
    LET start == IF s[i] = "-" THEN i + 1 ELSE i
        end == DigitsEnd(s, start)
        digits == SubSeq(s, start, end - 1)
    IN  IF digits = <<>> \/ (Len(digits) > 1 /\ digits[1] = "0") THEN SyntaxError
        ELSE Parsed(Num(IF s[i] = "-" THEN 0 - CharsToNat(digits)
                        ELSE CharsToNat(digits)), end)

RECURSIVE ParseValue(_, _)
RECURSIVE ParseMembers(_, _, _)
RECURSIVE ParseElements(_, _, _)

\* What follows the value of a member of an object: the property is set (a
\* repeated key takes the later value), then a comma leads to the next
\* member and a closing brace ends the object.
AfterMember(s, props, val) ==
    LET d == SkipWhitespace(s, val.next)
    IN  IF d > Len(s) THEN SyntaxError
        ELSE IF s[d] = "}" THEN Parsed(Obj(props), d + 1)
        ELSE IF s[d] = "," THEN ParseMembers(s, SkipWhitespace(s, d + 1), props)
        ELSE SyntaxError

\* The members of an object from position i on, where a key is due, after
\* the properties props.
ParseMembers(s, i, props) ==
    IF i > Len(s) \/ s[i] # "\"" THEN SyntaxError
    ELSE LET key == ParseString(s, i)
             colon == SkipWhitespace(s, key.next)
         IN  IF ~key.ok THEN SyntaxError
             ELSE IF colon > Len(s) \/ s[colon] # ":" THEN SyntaxError
             ELSE CHOOSE r \in
                      {IF val.ok
                       THEN CHOOSE q \in
                                {AfterMember(s, next, val) :
                                     next \in {SetProperty(props, key.v.s, val.v)}} : TRUE
                       ELSE SyntaxError :
                           val \in {ParseValue(s, colon + 1)}} : TRUE

\* The elements of an array from position i on, where a value is due, after
\* the elements elems.
ParseElements(s, i, elems) ==
    CHOOSE r \in
        {IF ~val.ok THEN SyntaxError
         ELSE LET d == SkipWhitespace(s, val.next)
              IN  IF d > Len(s) THEN SyntaxError
                  ELSE IF s[d] = "]" THEN Parsed(Arr(Append(elems, val.v)), d + 1)
                  ELSE IF s[d] = "," THEN ParseElements(s, d + 1, Append(elems, val.v))
                  ELSE SyntaxError :
             val \in {ParseValue(s, i)}} : TRUE

\* The value that starts at or after position from, behind white space.
ParseValue(s, from) ==
    LET i == SkipWhitespace(s, from)
        inner == SkipWhitespace(s, i + 1)
    IN  IF i > Len(s) THEN SyntaxError
        ELSE CASE s[i] = "\"" -> ParseString(s, i)
               [] s[i] = "{" ->
                      IF inner <= Len(s) /\ s[inner] = "}" THEN Parsed(Obj(<<>>), inner + 1)
                      ELSE ParseMembers(s, inner, <<>>)
               [] s[i] = "[" ->
                      IF inner <= Len(s) /\ s[inner] = "]" THEN Parsed(Arr(<<>>), inner + 1)
                      ELSE ParseElements(s, inner, <<>>)
               [] s[i] \in DigitChars \cup {"-"} -> ParseNumber(s, i)
               [] MatchAt(s, Chars("true"), i) -> Parsed(Bool(TRUE), i + 4)
               [] MatchAt(s, Chars("false"), i) -> Parsed(Bool(FALSE), i + 5)
               [] MatchAt(s, Chars("null"), i) -> Parsed(Null, i + 4)
               [] OTHER -> SyntaxError

\* JSON.parse(text): one value, with nothing but white space around it.
JSONParse(text) ==
    CHOOSE r \in
        {IF val.ok /\ SkipWhitespace(text, val.next) = Len(text) + 1 THEN val
         ELSE SyntaxError :
             val \in {ParseValue(text, 1)}} : TRUE

(***************************************************************************)
(* The pretty printer (cli/pretty-print.ts): main reads its input chunk by *)
(* chunk and hands every complete line to prettyPrintLogObject.            *)
(*                                                                         *)
(* A chunk is a sequence of bytes. The byte of an ASCII character is       *)
(* written as that character; "C3" and "A9" are the two bytes of the       *)
(* UTF-8 encoding of U+00E9. In a text, "U+E9" is that character and       *)
(* "U+FFFD" the replacement character.                                     *)
(***************************************************************************)
\* new TextDecoder().decode(chunk): UTF-8 decoding of the chunk on its own.
\* The lead byte followed by its continuation byte gives the character; a
\* lead byte with no continuation byte behind it in the chunk, and a
\* continuation byte with no lead byte before it, give U+FFFD each.
Decode(chunk) ==
    LET continues(h) == chunk[h] = "A9" /\ h > 1 /\ chunk[h - 1] = "C3"
        kept == SelectSeq([h \in 1..Len(chunk) |-> h], LAMBDA h : ~continues(h))
    IN  [j \in 1..Len(kept) |->
            CASE chunk[kept[j]] = "C3" ->
                     IF kept[j] < Len(chunk) /\ chunk[kept[j] + 1] = "A9"
                     THEN "U+E9" ELSE "U+FFFD"
              [] chunk[kept[j]] = "A9" -> "U+FFFD"
              [] OTHER -> chunk[kept[j]]]

(***************************************************************************)
(* prettyPrintLogObject(line): what the pretty printer writes for a line.  *)
(***************************************************************************)
\* A color function of @std/fmt/colors applied to str: the text between the
\* escape sequence that opens the color and the one that resets it (each one
\* element of the text here), or the text as it is when colors are off.
run(str, open) == IF noColor THEN str ELSE <<open>> \o str \o <<"ESC[39m">>

RECURSIVE SerializeIndented(_, _, _)
\* SerializeJSONProperty under a gap, for a value JSON.parse produced: a
\* container that is not empty puts every member on a line of its own,
\* indented by one more gap than the container, with a space after the
\* colon of a key.
SerializeIndented(v, indent, gap) ==
    LET inner == indent \o gap
        sep == <<",", "\n">> \o inner
    IN  CASE v.kind = "null" -> Chars("null")
          [] v.kind = "boolean" -> IF v.b THEN Chars("true") ELSE Chars("false")
          [] v.kind = "number" -> IntToChars(v.n)
          [] v.kind = "string" -> QuoteJSONString(v.s)
          [] v.kind = "object" ->
                 IF v.props = <<>> THEN <<"{", "}">>
                 ELSE <<"{", "\n">> \o inner
                      \o Join([i \in 1..Len(v.props) |->
                                  QuoteJSONString(v.props[i][1]) \o <<":", " ">>
                                      \o SerializeIndented(v.props[i][2], inner, gap)],
                              sep)
                      \o <<"\n">> \o indent \o <<"}">>
          [] v.kind = "array" ->
                 IF v.elems = <<>> THEN <<"[", "]">>
                 ELSE <<"[", "\n">> \o inner
                      \o Join([i \in 1..Len(v.elems) |->
                                  SerializeIndented(v.elems[i], inner, gap)],
                              sep)
                      \o <<"\n">> \o indent \o <<"]">>

\* JSON.stringify(value, null, space) for a number of spaces.
JSONStringifyIndented(value, space) ==
    SerializeIndented(value, <<>>, [i \in 1..space |-> " "])

\* k in obj, for an object JSON.parse produced and a key that no prototype
\* holds: an array has its indices and length only.
In(k, obj) == obj.kind = "object" /\ KeyPosition(obj.props, k) # 0

\* isLogObject without the test of the type of level_n.
isLogObjectAnyRank(obj) ==
    /\ obj.kind \in {"object", "array"}
    /\ In(Chars("level"), obj)
    /\ In(Chars("level_n"), obj)
    /\ In(Chars("namespace"), obj)
    /\ In(Chars("message"), obj)
    /\ In(Chars("context"), obj)
    /\ GetProperty(obj, Chars("level")).kind = "string"
    /\ GetProperty(obj, Chars("namespace")).kind = "string"
    /\ GetProperty(obj, Chars("message")).kind = "string"
    /\ GetProperty(obj, Chars("context")).kind \in {"object", "array"}

\* isLogObject asking for one of the six severities as well.
isLogObjectOfSeverity(obj) ==
    /\ isLogObjectAnyRank(obj)
    /\ GetProperty(obj, Chars("level_n")).kind = "number"
    /\ GetProperty(obj, Chars("level")).s
           \in {Chars(l) : l \in {"trace", "debug", "info", "warn", "error", "fatal"}}

\* isLogObject(obj).
isLogObject(obj) ==
    /\ obj.kind \in {"object", "array"}
    /\ In(Chars("level"), obj)
    /\ In(Chars("level_n"), obj)
    /\ In(Chars("namespace"), obj)
    /\ In(Chars("message"), obj)
    /\ In(Chars("context"), obj)
    /\ GetProperty(obj, Chars("level")).kind = "string"
    /\ GetProperty(obj, Chars("level_n")).kind = "number"
    /\ GetProperty(obj, Chars("namespace")).kind = "string"
    /\ GetProperty(obj, Chars("message")).kind = "string"
    /\ GetProperty(obj, Chars("context")).kind \in {"object", "array"}

\* The switch of prettyPrintLogObject with the tags written without the
\* blank in front of INFO and WARN.
LevelTagUnpadded(level) ==
    CASE level = Chars("trace") -> run(Chars("TRACE > "), "ESC[90m")
      [] level = Chars("debug") -> run(Chars("DEBUG > "), "ESC[34m")
      [] level = Chars("info") -> run(Tail(Chars(" INFO > ")), "ESC[32m")
      [] level = Chars("warn") -> run(Tail(Chars(" WARN > ")), "ESC[33m")
      [] level = Chars("error") -> run(Chars("ERROR > "), "ESC[31m")
      [] level = Chars("fatal") -> run(Chars("FATAL > "), "ESC[35m")
      [] OTHER -> <<>>

\* The switch of prettyPrintLogObject: what json.level adds to the empty
\* message, gray, blue, green, yellow, red or magenta; nothing when no case
\* matches.
LevelTag(level) ==
    CASE level = Chars("trace") -> run(Chars("TRACE > "), "ESC[90m")
      [] level = Chars("debug") -> run(Chars("DEBUG > "), "ESC[34m")
      [] level = Chars("info") -> run(Chars(" INFO > "), "ESC[32m")
      [] level = Chars("warn") -> run(Chars(" WARN > "), "ESC[33m")
      [] level = Chars("error") -> run(Chars("ERROR > "), "ESC[31m")
      [] level = Chars("fatal") -> run(Chars("FATAL > "), "ESC[35m")
      [] OTHER -> <<>>

\* The try block of prettyPrintLogObject: the message it hands to
\* console.log, or what it throws: the SyntaxError of JSON.parse, or the
\* Error for a value that is no LogObject.
TryBlock(line) ==
    CHOOSE r \in
        {IF ~json.ok THEN ThrowResult("SyntaxError")
         ELSE IF ~isLogObject(json.v) THEN ThrowResult("Error")
         ELSE StringResult(
                  LevelTag(GetProperty(json.v, Chars("level")).s)
                      \o <<"[">>
                      \o run(GetProperty(json.v, Chars("namespace")).s, "ESC[36m")
                      \o <<"]", " ">>
                      \o run(GetProperty(json.v, Chars("message")).s, "ESC[37m")
                      \o <<"\n">>
                      \o run(JSONStringifyIndented(GetProperty(json.v, Chars("context")), 2),
                             "ESC[90m")) :
             json \in {JSONParse(line)}} : TRUE

\* prettyPrintLogObject without its catch clause: what the try block throws
\* leaves the function, and nothing is written.
prettyPrintLogObjectUncaught(line) ==
    CHOOSE r \in
        {IF try.tag = "throw" THEN [threw |-> TRUE, text |-> <<>>]
         ELSE [threw |-> FALSE, text |-> try.s] :
             try \in {TryBlock(line)}} : TRUE

\* prettyPrintLogObject(line): the one console.log call it makes, with the
\* message of the try block or, from the catch clause, with the line in gray.
prettyPrintLogObject(line) ==
    CHOOSE r \in
        {[threw |-> FALSE,
          text |-> IF try.tag = "throw" THEN run(line, "ESC[90m") ELSE try.s] :
             try \in {TryBlock(line)}} : TRUE

\* The loop body starting every chunk with an empty buffer.
mainForgetful(chunk) ==
    /\ reads > 0
    /\ mainPromise = "pending"
    /\ \E lines \in {Split(Decode(chunk), "\n")} :
           /\ partial' = lines[Len(lines)]
           /\ rendered' = rendered \o SubSeq(lines, 1, Len(lines) - 1)
           /\ printed' = printed \o [i \in 1..(Len(lines) - 1) |->
                                        prettyPrintLogObject(lines[i]).text]
    /\ chunks' = Append(chunks, chunk)
    /\ reads' = reads - 1
    /\ UNCHANGED <<loggerVars, normArg, normOut, noColor, mainPromise>>

\* The loop body keeping in partial the lines it has handed on.
mainUntruncated(chunk) ==
    /\ reads > 0
    /\ mainPromise = "pending"
    /\ \E text \in {partial \o Decode(chunk)} :
       \E lines \in {Split(text, "\n")} :
           /\ partial' = text
           /\ rendered' = rendered \o SubSeq(lines, 1, Len(lines) - 1)
           /\ printed' = printed \o [i \in 1..(Len(lines) - 1) |->
                                        prettyPrintLogObject(lines[i]).text]
    /\ chunks' = Append(chunks, chunk)
    /\ reads' = reads - 1
    /\ UNCHANGED <<loggerVars, normArg, normOut, noColor, mainPromise>>

\* One turn of the loop of main, for the chunk read: the decoded text is
\* appended to partial, the buffer is split at the newlines, the last piece
\* is the new partial, and prettyPrintLogObject is called with every other
\* piece, in order. A call that throws ends the loop: the promise of main is
\* rejected and the pieces behind it are never handed on.
main(chunk) ==
    /\ reads > 0
    /\ mainPromise = "pending"
    /\ \E lines \in {Split(partial \o Decode(chunk), "\n")} :
       \E outcomes \in {[i \in 1..(Len(lines) - 1) |-> prettyPrintLogObject(lines[i])]} :
       \E called \in {IF \E i \in DOMAIN outcomes : outcomes[i].threw
                      THEN CHOOSE i \in DOMAIN outcomes :
                               /\ outcomes[i].threw
                               /\ \A h \in 1..(i - 1) : ~outcomes[h].threw
                      ELSE Len(outcomes)} :
           /\ partial' = lines[Len(lines)]
           /\ rendered' = rendered \o SubSeq(lines, 1, called)
           /\ printed' = printed \o [i \in 1..called |-> outcomes[i].text]
           /\ mainPromise' = IF \E i \in DOMAIN outcomes : outcomes[i].threw
                             THEN "rejected" ELSE "pending"
    /\ chunks' = Append(chunks, chunk)
    /\ reads' = reads - 1
    /\ UNCHANGED <<loggerVars, normArg, normOut, noColor>>

\* The end of the input writing what partial holds as a last line.
mainReturnFlushing ==
    /\ mainPromise = "pending"
    /\ mainPromise' = "fulfilled"
    /\ printed' = IF partial = <<>> THEN printed
                  ELSE Append(printed, prettyPrintLogObject(partial).text)
    /\ UNCHANGED <<loggerVars, normArg, normOut, partial, rendered, chunks, reads,
                   noColor>>

\* The input ends, after any chunk: the loop of main is left and main
\* returns. Nothing reads partial again.
mainReturn ==
    /\ mainPromise = "pending"
    /\ mainPromise' = "fulfilled"
    /\ UNCHANGED <<loggerVars, normArg, normOut, partial, rendered, chunks, reads,
                   noColor, printed>>

\* The chunks the input delivers: an empty one, chunks without a newline,
\* with one and with several newlines, and chunks that hold a two-byte
\* character whole, its first byte only and its second byte only.
Chunks ==
    {<<>>,
     <<"a", "b">>,
     <<"c", "\n", "d", "e", "f", "\n", "g">>,
     <<"h", "i", "\n">>,
     <<"\n", "\n">>,
     <<"C3", "A9", "\n">>,
     <<"a", "C3">>,
     <<"A9", "\n", "{", "}">>}

\* The pretty printer: it makes no Logger call.
InitDecoder ==
    /\ InitLogger({DefaultConfiguration}, 0)
    /\ InitDecoderWith(MaxChunks)

NextDecoder ==
    \/ \E chunk \in Chunks : main(chunk)
    \/ mainReturn

SpecDecoder == InitDecoder /\ [][NextDecoder]_vars

\* The line a Logger with the default formatter and serializer writes for a
\* call of the given level with namespace "my-app.db" and message "hello".
WireLine(level, context, withTimestamp) ==
    defaultFormatLog(LogObjectOf(level, Chars("my-app.db"), Chars("hello"), context,
                                 withTimestamp, 0),
                     "defaultJsonValueSerializer").s

\* The line of a LogObject that lacks one key, or holds v under it.
ForeignLine(key, v) ==
    LET l == LogObjectOf("error", Chars("my-app.db"), Chars("hello"), Obj(<<>>), FALSE, 0)
        at == KeyPosition(l.props, Chars(key))
    IN  JSONStringify(
            Obj(SubSeq(l.props, 1, at - 1)
                    \o (IF v = Undefined THEN <<>> ELSE <<<<Chars(key), v>>>>)
                    \o SubSeq(l.props, at + 1, Len(l.props))),
            "defaultJsonValueSerializer").s

\* The bytes of a chunk that holds the lines, each with its newline.
ChunkOf(lines) == Join(lines, <<"\n">>) \o <<"\n">>

\* The context of the example of the README.
ExampleContext == Obj(<<<<Chars("host"), Str(Chars("db1"))>>, <<Chars("retry"), Num(3)>>>>)

\* A context with nested containers, empty containers and a string that
\* holds a newline and a quote.
NestedContext ==
    Obj(<<<<Chars("k"), Arr(<<Num(1), Obj(<<<<Chars("j"), Null>>>>), Arr(<<>>)>>)>>,
          <<Chars("m"), Obj(<<>>)>>,
          <<Chars("a"), Str(<<"a", "\n", "\"">>)>>>>)

\* The chunks of an input that holds records: a record of every severity;
\* records of an unknown level, with a timestamp, with an array as context
\* and with white space around it; objects that lack a key of a LogObject
\* or hold a value of another type under it; lines that are no JSON, or
\* JSON but no object; and a record cut in two chunks.
LineChunks ==
    {ChunkOf([i \in 1..6 |-> WireLine(LOG_LEVELS[i], ExampleContext, FALSE)]),
     ChunkOf(<<WireLine("verbose", Obj(<<>>), FALSE),
               WireLine("info", NestedContext, TRUE),
               <<" ">> \o WireLine("warn", Arr(<<Num(1)>>), FALSE) \o <<" ", "\t">>>>),
     ChunkOf(<<ForeignLine("context", Undefined),
               ForeignLine("context", Null),
               ForeignLine("context", Str(Chars("a"))),
               ForeignLine("level_n", Str(<<"4">>)),
               ForeignLine("level", Num(4)),
               ForeignLine("namespace", Undefined),
               ForeignLine("message", Bool(TRUE))>>),
     ChunkOf(<<Chars("plain text"), <<>>, <<"5">>, <<"\"", "a", "\"">>, Chars("null"),
               <<"[", "1", "]">>, <<"{", "}">>, <<"{", "\"", "a", "\"">>,
               <<"{", "\"", "a", "\"", ":", "1", "}", "x">>>>),
     SubSeq(WireLine("fatal", ExampleContext, FALSE), 1, 20),
     SubSeq(WireLine("fatal", ExampleContext, FALSE), 21,
            Len(WireLine("fatal", ExampleContext, FALSE))) \o <<"\n">>}

\* The pretty printer reading records.
InitRenderer ==
    /\ InitLogger({DefaultConfiguration}, 0)
    /\ InitDecoderWith(MaxLineChunks)

NextRenderer ==
    \/ \E chunk \in LineChunks : main(chunk)
    \/ mainReturn

SpecRenderer == InitRenderer /\ [][NextRenderer]_vars

(***************************************************************************)
(* Reading a written line back: the members of its top-level JSON object.  *)
(***************************************************************************)
RECURSIVE ClosingQuote(_, _)
\* The position of the quote that closes the string whose text starts at i.
ClosingQuote(s, i) ==
    IF s[i] = "\\" THEN ClosingQuote(s, i + 2)
    ELSE IF s[i] = "\"" THEN i
    ELSE ClosingQuote(s, i + 1)

\* The characters that shape a JSON text outside its strings.
Structural == {"\"", "{", "[", "}", "]", ","}

RECURSIVE NextStructural(_, _)
\* The first position at or after i that holds a structural character, or
\* Len(s) + 1 when there is none.
NextStructural(s, i) ==
    IF i > Len(s) \/ s[i] \in Structural THEN i ELSE NextStructural(s, i + 1)

RECURSIVE ScanMembers(_, _, _, _, _)
\* The texts of the members of the outermost object of s, split at the commas
\* that lie outside every string and every nested container. i is at a
\* structural character; a string is stepped over as a whole; start is where
\* the current member began.
ScanMembers(s, i, depth, start, members) ==
    IF i > Len(s) THEN members
    ELSE LET next == NextStructural(s, i + 1)
         IN  CASE s[i] = "\"" ->
                      ScanMembers(s, NextStructural(s, ClosingQuote(s, i + 1) + 1),
                                  depth, start, members)
               [] s[i] \in {"{", "["} ->
                      ScanMembers(s, next, depth + 1,
                                  IF depth = 0 THEN i + 1 ELSE start, members)
               [] s[i] \in {"}", "]"} ->
                      ScanMembers(s, next, depth - 1, start,
                                  IF depth = 1 /\ start < i
                                  THEN Append(members, SubSeq(s, start, i - 1))
                                  ELSE members)
               [] OTHER ->
                      IF depth = 1
                      THEN ScanMembers(s, next, depth, i + 1,
                                       Append(members, SubSeq(s, start, i - 1)))
                      ELSE ScanMembers(s, next, depth, start, members)

TopMembers(line) == ScanMembers(line, NextStructural(line, 1), 0, 1, <<>>)

\* The key of a member "key":value, as written between its quotes.
MemberKey(m) == SubSeq(m, 2, ClosingQuote(m, 2) - 1)

\* The value text of a member "key":value.
MemberValue(m) == SubSeq(m, ClosingQuote(m, 2) + 2, Len(m))

\* The keys of the top-level object of a line, in the order written.
TopKeys(line) ==
    LET ms == TopMembers(line)
    IN  [i \in 1..Len(ms) |-> MemberKey(ms[i])]

\* Whether the top-level object of a line has the key.
HasTopKey(line, key) ==
    LET ks == TopKeys(line)
    IN  \E i \in 1..Len(ks) : ks[i] = key

\* The value text written for a top-level key of a line.
TopValue(line, key) ==
    LET ms == TopMembers(line)
        at == CHOOSE i \in 1..Len(ms) : MemberKey(ms[i]) = key
    IN  MemberValue(ms[at])

(***************************************************************************)
(* A Logger called with contexts that hold containers in containers.       *)
(***************************************************************************)
\* A call whose context holds a Map in a Map with a typed array, a Date and
\* a callable below them, and a Set that holds a Set of a Map of a regular
\* expression, an Error whose message is a Map of a typed array, and a
\* bigint.
NestedCall ==
    <<Chars("g"), Chars("m"),
      Obj(<<<<Chars("k"),
              MapValue(<<<<Chars("j"),
                           MapValue(<<<<Chars("a"), TypedArray("Int8Array", 2)>>,
                                      <<Chars("m"), DateValue(TRUE, 1)>>>>)>>,
                         <<Chars("f"), Fn(Chars("f"), Chars("function f(a, b) {}"))>>>>)>>,
            <<Chars("m"),
              SetValue(<<SetValue(<<MapValue(<<<<Chars("k"),
                                                RegExpValue(Chars("a"), Chars("g"))>>>>)>>),
                         Err(Str(Chars("Error")),
                             MapValue(<<<<Chars("k"), TypedArray("Uint8Array", 1)>>>>),
                             Undefined),
                         BigIntValue(-1)>>)>>>>)>>

\* A call whose context is a Map that holds, four containers deep, a Set of
\* a Date, a symbol and a WeakMap.
DeepCall ==
    <<Chars("a"), Chars("x"),
      MapValue(<<<<Chars("k"),
                   Arr(<<Obj(<<<<Chars("j"),
                                 MapValue(<<<<Chars("m"),
                                              SetValue(<<DateValue(TRUE, 0),
                                                         SymbolValue(Chars("a")),
                                                         WeakMapValue>>)>>>>)>>>>)>>)>>>>)>>

NestedArgs == {NestedCall, DeepCall}

InitNested == InitWith(SequenceConfigurations, MaxSequence)

NextNested ==
    \E a \in NestedArgs :
        \/ trace(a[1], a[2], a[3])
        \/ debug(a[1], a[2], a[3])
        \/ info(a[1], a[2], a[3])
        \/ warn(a[1], a[2], a[3])
        \/ error(a[1], a[2], a[3])
        \/ fatal(a[1], a[2], a[3])

SpecNested == InitNested /\ [][NextNested]_vars

(***************************************************************************)
(* Vocabulary of the properties.                                           *)
(***************************************************************************)
\* The rank of a severity: trace < debug < info < warn < error < fatal.
Rank(level) ==
    CASE level = "trace" -> 0
      [] level = "debug" -> 1
      [] level = "info" -> 2
      [] level = "warn" -> 3
      [] level = "error" -> 4
      [] level = "fatal" -> 5

Severities == {"trace", "debug", "info", "warn", "error", "fatal"}

\* The minimum level the Logger was configured with (trace when left out).
ConfiguredMin == IF configuration.minLogLevel.given THEN configuration.minLogLevel.v ELSE "trace"

\* Whether timestamps were configured (included when left out).
ConfiguredTimestamp ==
    IF configuration.includeTimestamp.given THEN configuration.includeTimestamp.v ELSE TRUE

\* The calls made so far.
CallIds == 1..Len(calls)

\* Whether call i wrote to the sink, and the line it wrote.
Wrote(i) == calls[i].writes >= 1

LineOf(i) == sink[Cardinality({j \in 1..i : Wrote(j)})]

\* Whether s holds a newline character.
HasNewline(s) == \E j \in 1..Len(s) : s[j] = "\n"

RECURSIVE FormattedLines(_)
\* The lines of the calls that passed the level gate and whose formatting
\* returned, in call order, each formatted from the record the call built.
FormattedLines(history) ==
    IF history = <<>> THEN <<>>
    ELSE LET call == Head(history)
         IN  (IF call.built # <<>> /\ ~call.threw
              THEN <<ConsoleText(JSONStringify(call.built[1], "defaultJsonValueSerializer"))>>
              ELSE <<>>)
                 \o FormattedLines(Tail(history))

(***************************************************************************)
(* Properties.                                                             *)
(***************************************************************************)

\* C1: with a configured minimum level L among the six severities (trace
\* when none is configured), a call at level L' writes a line if and only if
\* rank(L') >= rank(L).
C1_WritesIffRankAtLeastMinimum ==
    ConfiguredMin \in Severities =>
        \A i \in CallIds :
            Wrote(i) <=> Rank(calls[i].level) >= Rank(ConfiguredMin)

\* A level is enabled when its rank is at least the rank of the configured
\* minimum; every level is enabled when that minimum is no severity.
IsEnabled(level) ==
    ConfiguredMin \in Severities => Rank(level) >= Rank(ConfiguredMin)

\* C2: the sink has received exactly one append per call made at an enabled
\* level and none per call made at a disabled level.
C2_OneAppendPerEnabledCall ==
    /\ \A i \in CallIds : calls[i].writes = IF IsEnabled(calls[i].level) THEN 1 ELSE 0
    /\ Len(sink) = Cardinality({i \in CallIds : IsEnabled(calls[i].level)})

\* C3: the lines in the sink are, in order, the lines of the enabled calls
\* that produced them: every line is in the sink when its call has returned,
\* behind the lines of all earlier calls and before those of all later ones.
C3_SinkInCallOrder == sink = FormattedLines(calls)

\* C3 witness: two calls have written two different lines.
C3_Witness == Len(sink) = 2 /\ sink[1] # sink[2] /\ Wrote(1) /\ Wrote(2)

\* C4: every record a Logger method builds carries the level of the method,
\* level_n equal to the rank of that level, the namespace and the message as
\* passed, and the context as passed, {} when the caller left it out; the
\* line written carries the same level, level_n, namespace and message.
C4_RecordCarriesArguments ==
    \A i \in CallIds :
        calls[i].built # <<>> =>
            LET props == calls[i].built[1].props
            IN  /\ props[1] = <<Chars("level"), Str(Chars(calls[i].level))>>
                /\ props[2] = <<Chars("level_n"), Num(Rank(calls[i].level))>>
                /\ props[3] = <<Chars("namespace"), Str(calls[i].namespace)>>
                /\ props[4] = <<Chars("message"), Str(calls[i].message)>>
                /\ props[5] = <<Chars("context"),
                                IF passed[i] = Undefined THEN Obj(<<>>) ELSE passed[i]>>
                /\ Wrote(i) =>
                       LET ms == TopMembers(LineOf(i))
                       IN  /\ ms[1] = QuoteJSONString(Chars("level")) \o <<":">>
                                          \o QuoteJSONString(Chars(calls[i].level))
                           /\ ms[2] = QuoteJSONString(Chars("level_n")) \o <<":">>
                                          \o <<Digit(Rank(calls[i].level))>>
                           /\ ms[3] = QuoteJSONString(Chars("namespace")) \o <<":">>
                                          \o QuoteJSONString(calls[i].namespace)
                           /\ ms[4] = QuoteJSONString(Chars("message")) \o <<":">>
                                          \o QuoteJSONString(calls[i].message)

\* C4 witness: a fatal call without context has built a record, with the
\* context {}, and written it.
C4_Witness ==
    \E i \in CallIds :
        /\ Wrote(i)
        /\ passed[i] = Undefined
        /\ calls[i].level = "fatal"
        /\ calls[i].built[1].props[5][2] = Obj(<<>>)

\* C5: with includeTimestamp false a written record has no timestamp key;
\* with includeTimestamp true, or left out, it has a timestamp key that
\* holds the instant of the call.
C5_TimestampKeyIffConfigured ==
    \A i \in CallIds :
        Wrote(i) =>
            /\ HasTopKey(LineOf(i), Chars("timestamp")) <=> ConfiguredTimestamp
            /\ ConfiguredTimestamp =>
                   TopValue(LineOf(i), Chars("timestamp"))
                       = QuoteJSONString(ToISOString(calls[i].at))

\* C5 witness: a Logger configured without any includeTimestamp has written
\* two lines at two instants.
C5_Witness ==
    /\ ~configuration.includeTimestamp.given
    /\ Len(sink) = 2
    /\ HasTopKey(sink[1], Chars("timestamp"))
    /\ TopValue(sink[1], Chars("timestamp")) # TopValue(sink[2], Chars("timestamp"))

\* The keys of a record without timestamp.
KeysWithoutTimestamp ==
    <<Chars("level"), Chars("level_n"), Chars("namespace"), Chars("message"),
      Chars("context")>>

\* C6, as claimed: the keys of a written line are level, level_n, timestamp,
\* namespace, message, context when the timestamp is included (timestamp is
\* the third key), and level, level_n, namespace, message, context when not.
C6_TimestampThirdKey ==
    \A i \in CallIds :
        Wrote(i) =>
            TopKeys(LineOf(i)) =
                IF ConfiguredTimestamp
                THEN <<Chars("level"), Chars("level_n"), Chars("timestamp"),
                       Chars("namespace"), Chars("message"), Chars("context")>>
                ELSE KeysWithoutTimestamp

\* C6, amended: the keys of a written line are level, level_n, namespace,
\* message, context, timestamp when the timestamp is included (timestamp is
\* the sixth and last key), and level, level_n, namespace, message, context
\* when it is not.
C6_TimestampLastKey ==
    \A i \in CallIds :
        Wrote(i) =>
            TopKeys(LineOf(i)) =
                IF ConfiguredTimestamp
                THEN Append(KeysWithoutTimestamp, Chars("timestamp"))
                ELSE KeysWithoutTimestamp

\* C6 witness: a line with a timestamp has been written.
C6_Witness == \E i \in CallIds : Wrote(i) /\ ConfiguredTimestamp /\ Len(TopKeys(LineOf(i))) = 6

\* C7: no string the default formatter produces holds a newline character,
\* whatever newlines the namespace, the message, the context keys and the
\* context strings hold.
C7_LineHasNoNewline == \A n \in 1..Len(sink) : ~HasNewline(sink[n])

\* C7 witness: a call whose namespace, message and context hold newlines
\* has written its line.
C7_Witness ==
    \E i \in CallIds :
        /\ Wrote(i)
        /\ HasNewline(calls[i].namespace)
        /\ HasNewline(calls[i].message)
        /\ passed[i].kind = "object"
        /\ \E p \in 1..Len(passed[i].props) : HasNewline(passed[i].props[p][1])

\* C8: a Logger whose configured minimum level is none of the six severities
\* supports all six levels, and each of its calls passes the level gate.
C8_UnrecognizedMinimumEnablesAll ==
    (configuration.minLogLevel.given /\ configuration.minLogLevel.v \notin Severities) =>
        /\ \A l \in Severities : Includes(supportedLogLevels, l)
        /\ \A i \in CallIds : calls[i].built # <<>>

\* C8 witness: a Logger configured with the minimum "verbose" has let a
\* trace call through and written its line.
C8_Witness ==
    /\ configuration.minLogLevel = Given("verbose")
    /\ \E i \in CallIds : calls[i].level = "trace" /\ Wrote(i)

\* C9: the default value serializer never throws: it returns a value for
\* every input.
C9_SerializerNeverThrows == normOut.tag # "throw"

\* C10: with the default formatter and the default serializer every Logger
\* call returns normally, and a call at an enabled level writes its line.
C10_DefaultCallsNeverThrow ==
    (formatLog = "defaultFormatLog" /\ jsonValueSerializer = "defaultJsonValueSerializer") =>
        \A i \in CallIds :
            /\ ~calls[i].threw
            /\ Includes(supportedLogLevels, calls[i].level) => Wrote(i)

(***************************************************************************)
(* Properties of a Logger with the caller's own formatter and serializer.  *)
(***************************************************************************)
\* Whether the configured formatter or serializer throws during call i: the
\* throwing formatter always does; the throwing serializer does when a
\* formatter that walks the record with it meets the boolean of FlagCall.
HookFails(i) ==
    \/ configuration.formatLog = Given("throwingFormatLog")
    \/ /\ configuration.jsonValueSerializer = Given("throwingSerializer")
       /\ configuration.formatLog \in {NoFunction, Given("wrapFormatLog")}
       /\ passed[i] = FlagCall[3]

\* The strings the formatter returned to the calls that wrote, in call order.
ReturnedLines ==
    LET ids == SelectSeq([i \in 1..Len(calls) |-> i], LAMBDA i : Wrote(i))
    IN  [j \in 1..Len(ids) |-> calls[ids[j]].formats[1].out.s]

\* C11: when the configured formatter or serializer throws during a call at
\* an enabled level, the call throws and writes nothing; the Logger keeps its
\* fields, and every other call, earlier or later, is gated and written as
\* usual: it writes, exactly when its level is enabled, the string its
\* formatter returned.
C11_HookFailurePropagates ==
    /\ \A i \in CallIds :
           IF IsEnabled(calls[i].level) /\ HookFails(i)
           THEN calls[i].threw /\ calls[i].writes = 0
           ELSE ~calls[i].threw /\ (Wrote(i) <=> IsEnabled(calls[i].level))
    /\ sink = ReturnedLines
    /\ supportedLogLevels = SupportedLogLevelsOf(configuration)
    /\ includeTimestamp = IncludeTimestampOf(configuration)
    /\ formatLog = FormatLogOf(configuration)
    /\ jsonValueSerializer = JsonValueSerializerOf(configuration)

\* C11 witness: the configured serializer threw during the first call, at an
\* enabled level, and the second call wrote its line.
C11_Witness ==
    /\ configuration.jsonValueSerializer = Given("throwingSerializer")
    /\ Len(calls) = 2
    /\ calls[1].threw /\ calls[1].built # <<>> /\ ~Wrote(1)
    /\ Wrote(2) /\ Len(sink) = 1

(***************************************************************************)
(* Properties of the default value serializer.                             *)
(***************************************************************************)
\* C12: the default serializer maps a typed array of any of the eleven kinds,
\* with N elements, to the string "<TypeName>(N)": the name of its own kind
\* and its element count.
C12_TypedArrayNameAndCount ==
    normArg.kind = "typedarray" =>
        /\ normArg.type \in TypedArrayNames
        /\ normOut = Return(Str(Chars(normArg.type) \o <<"(">>
                                    \o IntToChars(normArg.length) \o <<")">>))

\* C12 witness: a BigUint64Array of the largest length, eight bytes an
\* element, has been serialized.
C12_Witness ==
    /\ normArg = TypedArray("BigUint64Array", MaxLen)
    /\ MaxLen > 0
    /\ normOut.tag = "value"
    /\ normOut.v.s = Chars("BigUint64Array") \o <<"(">> \o IntToChars(MaxLen) \o <<")">>

\* C13: the default serializer maps an Error, an instance of a subclass with
\* fields of its own included, to the object with exactly the keys message,
\* name and stack, holding the message, the name and the stack of the error;
\* the result is the same whenever the same Error is serialized.
C13_ErrorMessageNameStack ==
    normArg.kind = "error" =>
        normOut = Return(Obj(<<<<Chars("message"), normArg.message>>,
                               <<Chars("name"), normArg.name>>,
                               <<Chars("stack"), normArg.stack>>>>))

\* C13 witness: an Error with fields of its own, one of them called name, has
\* been serialized to an object of three keys, with that field as its name.
C13_Witness ==
    /\ normArg.kind = "error"
    /\ "extra" \in DOMAIN normArg
    /\ normArg.extra # <<>>
    /\ normOut.tag = "value"
    /\ Len(normOut.v.props) = 3
    /\ normOut.v.props[2] = <<Chars("name"), Str(Chars("x"))>>

\* C14: the default serializer maps an opaque value to a literal string that
\* depends on its kind alone: an ArrayBuffer and a SharedArrayBuffer to
\* "ArrayBuffer", a WeakMap to "WeakMap", a WeakSet to "WeakSet", a promise
\* in any state to "Promise", a DataView to "DataView".
C14_OpaqueKindsToLiterals ==
    /\ normArg.kind = "arraybuffer" => normOut = Return(Str(Chars("ArrayBuffer")))
    /\ normArg.kind = "weakmap" => normOut = Return(Str(Chars("WeakMap")))
    /\ normArg.kind = "weakset" => normOut = Return(Str(Chars("WeakSet")))
    /\ normArg.kind = "promise" => normOut = Return(Str(Chars("Promise")))
    /\ normArg.kind = "dataview" => normOut = Return(Str(Chars("DataView")))

\* C14 witness: a rejected promise has been serialized.
C14_Witness ==
    /\ normArg = PromiseValue("rejected")
    /\ normOut.tag = "value"
    /\ normOut.v = Str(Chars("Promise"))

\* The places of the first and of the last entry of a Map under a key.
FirstEntry(entries, k) ==
    CHOOSE i \in 1..Len(entries) :
        entries[i][1] = k /\ \A j \in 1..(i - 1) : entries[j][1] # k

LastEntry(entries, k) ==
    CHOOSE i \in 1..Len(entries) :
        entries[i][1] = k /\ \A j \in (i + 1)..Len(entries) : entries[j][1] # k

\* The keys of the entries in iteration order, each at its first entry.
KeysInIterationOrder(entries) ==
    LET firsts == SelectSeq([i \in 1..Len(entries) |-> i],
                            LAMBDA i : FirstEntry(entries, entries[i][1]) = i)
    IN  [j \in 1..Len(firsts) |-> entries[firsts[j]][1]]

\* Whether every property holds the value of the last entry under its key.
LaterEntryKept(entries, props) ==
    \A p \in 1..Len(props) :
        /\ \E i \in 1..Len(entries) : entries[i][1] = props[p][1]
        /\ props[p][2] = entries[LastEntry(entries, props[p][1])][2]

\* C15, as claimed: a Map becomes a plain object with one key per entry key,
\* in the iteration order of the Map, each key holding the value of the last
\* entry under it.
C15_MapKeysInIterationOrder ==
    normArg.kind = "map" =>
        /\ normOut.tag = "value"
        /\ normOut.v.kind = "object"
        /\ [p \in 1..Len(normOut.v.props) |-> normOut.v.props[p][1]]
               = KeysInIterationOrder(normArg.entries)
        /\ LaterEntryKept(normArg.entries, normOut.v.props)

\* C15, amended: a Map becomes a plain object with one key per entry key,
\* each holding the value of the last entry under it; the keys that are
\* array indices come first, in ascending numeric order, and the other keys
\* follow in the iteration order of the Map.
C15_MapKeysIndexFirst ==
    normArg.kind = "map" =>
        /\ normOut.tag = "value"
        /\ normOut.v.kind = "object"
        /\ LET props == normOut.v.props
               entries == normArg.entries
               key(p) == props[p][1]
           IN  /\ {key(p) : p \in 1..Len(props)}
                      = {entries[i][1] : i \in 1..Len(entries)}
               /\ \A p, q \in 1..Len(props) :
                      p < q =>
                          /\ key(p) # key(q)
                          /\ IsArrayIndex(key(q)) =>
                                 /\ IsArrayIndex(key(p))
                                 /\ CharsToNat(key(p)) < CharsToNat(key(q))
                          /\ (~IsArrayIndex(key(p)) /\ ~IsArrayIndex(key(q))) =>
                                 FirstEntry(entries, key(p)) < FirstEntry(entries, key(q))
               /\ LaterEntryKept(entries, props)

\* C15 witness: a Map whose second and third keys are array indices, in
\* descending order, has become an object that starts with them, ascending.
C15_Witness ==
    /\ normArg.kind = "map"
    /\ Len(normArg.entries) = 4
    /\ normArg.entries[2][1] = <<"1">>
    /\ normOut.tag = "value"
    /\ normOut.v.props[1][1] = <<"0">>
    /\ normOut.v.props[2][1] = <<"1">>
    /\ normOut.v.props[3][1] = Chars("k")

(***************************************************************************)
(* Round trip of a context through the written line.                       *)
(***************************************************************************)
RECURSIVE IsNativeJSON(_)
\* A value built only from strings, finite numbers, booleans, null, plain
\* objects and arrays.
IsNativeJSON(v) ==
    CASE v.kind \in {"string", "boolean", "null"} -> TRUE
      [] v.kind = "number" -> v.finite
      [] v.kind = "object" -> \A p \in 1..Len(v.props) : IsNativeJSON(v.props[p][2])
      [] v.kind = "array" -> \A e \in 1..Len(v.elems) : IsNativeJSON(v.elems[e])
      [] OTHER -> FALSE

\* C16: for a context built only from native JSON values, the line a Logger
\* with the default formatter and serializer writes parses back to a record
\* whose context equals the context passed ({} when none was passed), with
\* the same keys in the same order.
C16_NativeContextRoundTrip ==
    \A i \in CallIds :
        (Wrote(i) /\ IsNativeJSON(DefaultContext(passed[i]))) =>
            LET parsed == JSONParse(LineOf(i))
            IN  /\ parsed.ok
                /\ parsed.v.kind = "object"
                /\ GetProperty(parsed.v, Chars("context")) = DefaultContext(passed[i])

\* C16 witness: the call with the nested native context has written a line
\* that parses.
C16_Witness ==
    \E i \in CallIds :
        /\ Wrote(i)
        /\ passed[i] = JsonCall[3]
        /\ JSONParse(LineOf(i)).ok

(***************************************************************************)
(* Properties of a configured serializer and of a configured formatter.    *)
(***************************************************************************)
\* What the serializer of the test returns for a string under a key.
KeyValue(key, text) == Str(Chars(key) \o <<"=">> \o text)

\* The context written for each of the contexts passed when every value
\* that is no object is replaced by `${key}=${value}` and no other value is
\* touched: the typed array is written with its elements, the Map and the
\* Error as objects without properties.
KeyValueContext(context) ==
    CASE context = Undefined -> Obj(<<>>)
      [] context = FlagCall[3] ->
             Obj(<<<<Chars("foo"), KeyValue("foo", Chars("foo"))>>,
                   <<Chars("bar"), KeyValue("bar", <<"1", "2", "3">>)>>,
                   <<Chars("baz"), KeyValue("baz", Chars("true"))>>>>)
      [] context = MappedCall[3] ->
             Obj(<<<<Chars("k"), Obj(<<<<<<"0">>, Str(<<"0", "=", "0">>)>>,
                                       <<<<"1">>, Str(<<"1", "=", "0">>)>>>>)>>,
                   <<Chars("j"), Obj(<<>>)>>,
                   <<Chars("m"), Obj(<<>>)>>>>)

\* The context written for each of the contexts passed when the serializer
\* returns every value as it is.
UntouchedContext(context) ==
    CASE context = Undefined -> Obj(<<>>)
      [] context = FlagCall[3] -> context
      [] context = MappedCall[3] ->
             Obj(<<<<Chars("k"), Obj(<<<<<<"0">>, Num(0)>>, <<<<"1">>, Num(0)>>>>)>>,
                   <<Chars("j"), Obj(<<>>)>>,
                   <<Chars("m"), Obj(<<>>)>>>>)

\* C17: with a configured jsonValueSerializer and the default formatter,
\* every value of a written line is what the configured function returned
\* for its key and value, and no default mapping is applied: under the
\* test's serializer every field of the record and of the context that is
\* no object reads key=value; under the serializer that returns its values
\* the fields are written as they are; in both a typed array, a Map and an
\* Error are written as JSON.stringify writes such objects.
C17_ConfiguredSerializerOnly ==
    (configuration.jsonValueSerializer.given /\ ~configuration.formatLog.given) =>
        \A i \in CallIds :
            Wrote(i) =>
                LET parsed == JSONParse(LineOf(i))
                    field(k) == GetProperty(parsed.v, Chars(k))
                IN  /\ parsed.ok
                    /\ parsed.v.kind = "object"
                    /\ IF configuration.jsonValueSerializer.v = "keyValueSerializer"
                       THEN /\ field("level") = KeyValue("level", Chars(calls[i].level))
                            /\ field("level_n")
                                   = KeyValue("level_n", IntToChars(Rank(calls[i].level)))
                            /\ field("namespace") = KeyValue("namespace", calls[i].namespace)
                            /\ field("message") = KeyValue("message", calls[i].message)
                            /\ ConfiguredTimestamp =>
                                   field("timestamp")
                                       = KeyValue("timestamp", ToISOString(calls[i].at))
                            /\ field("context") = KeyValueContext(passed[i])
                       ELSE /\ field("level") = Str(Chars(calls[i].level))
                            /\ field("level_n") = Num(Rank(calls[i].level))
                            /\ field("namespace") = Str(calls[i].namespace)
                            /\ field("message") = Str(calls[i].message)
                            /\ ConfiguredTimestamp =>
                                   field("timestamp") = Str(ToISOString(calls[i].at))
                            /\ field("context") = UntouchedContext(passed[i])

\* C17 witness: a Logger with the test's serializer and the default
\* formatter has written the call that holds a typed array, a Map and an
\* Error.
C17_Witness ==
    /\ configuration.jsonValueSerializer = Given("keyValueSerializer")
    /\ ~configuration.formatLog.given
    /\ \E i \in CallIds : Wrote(i) /\ passed[i] = MappedCall[3]

\* The serializer a configuration names (the default one when it names none).
ConfiguredSerializer ==
    IF configuration.jsonValueSerializer.given THEN configuration.jsonValueSerializer.v
    ELSE "defaultJsonValueSerializer"

\* C18: with a configured formatLog, every call at an enabled level invokes
\* that function once, with the record it built and the configured value
\* serializer, and a call at a disabled level does not invoke it; the line
\* written is the string the function returned, not the default JSON line:
\* level, a space and the message under the plain formatter, an object with
\* the one key log, holding the record as the configured serializer writes
\* it, under the test's formatter.
C18_ConfiguredFormatterOnly ==
    configuration.formatLog.given =>
        \A i \in CallIds :
            /\ Len(calls[i].formats) = (IF IsEnabled(calls[i].level) THEN 1 ELSE 0)
            /\ IsEnabled(calls[i].level) =>
                   /\ calls[i].formats[1].formatLog = configuration.formatLog.v
                   /\ calls[i].formats[1].l = calls[i].built[1]
                   /\ calls[i].formats[1].serializer = ConfiguredSerializer
            /\ Wrote(i) =>
                   /\ LineOf(i) = calls[i].formats[1].out.s
                   /\ configuration.formatLog.v = "plainFormatLog" =>
                          LineOf(i) = Chars(calls[i].level) \o <<" ">> \o calls[i].message
                   /\ configuration.formatLog.v = "wrapFormatLog" =>
                          LET parsed == JSONParse(LineOf(i))
                              log == GetProperty(parsed.v, Chars("log"))
                          IN  /\ parsed.ok
                              /\ parsed.v.kind = "object"
                              /\ Len(parsed.v.props) = 1
                              /\ log.kind = "object"
                              /\ GetProperty(log, Chars("level"))
                                     = IF ConfiguredSerializer = "keyValueSerializer"
                                       THEN KeyValue("level", Chars(calls[i].level))
                                       ELSE Str(Chars(calls[i].level))

\* C18 witness: a Logger with the plain formatter has written a line that
\* is no JSON text, and one with the test's formatter and the test's
\* serializer has written a line too.
C18_Witness ==
    \E i \in CallIds :
        /\ Wrote(i)
        /\ \/ /\ configuration.formatLog = Given("plainFormatLog")
              /\ ~JSONParse(LineOf(i)).ok
           \/ /\ configuration.formatLog = Given("wrapFormatLog")
              /\ configuration.jsonValueSerializer = Given("keyValueSerializer")

(***************************************************************************)
(* Properties of the line decoder of the pretty printer.                   *)
(***************************************************************************)
RECURSIVE Received(_)
\* The text of the chunks read, one after the other.
Received(read) ==
    IF read = <<>> THEN <<>> ELSE Decode(Head(read)) \o Received(Tail(read))

\* The newline-terminated lines of a text, without their terminators: the
\* m-th line runs from behind the (m-1)-th newline to before the m-th.
TerminatedLines(text) ==
    LET newlines == SelectSeq([h \in 1..Len(text) |-> h], LAMBDA h : text[h] = "\n")
    IN  [m \in 1..Len(newlines) |->
            SubSeq(text, IF m = 1 THEN 1 ELSE newlines[m - 1] + 1, newlines[m] - 1)]

\* C19: after any sequence of chunks, the lines handed to the renderer are,
\* in order, the newline-terminated lines of the concatenation of the text
\* of the chunks, each without its terminator.
C19_LinesOfConcatenation == rendered = TerminatedLines(Received(chunks))

\* C19 witness: a line spread over three chunks has been handed over whole.
C19_Witness ==
    /\ chunks = <<<<"a", "b">>, <<"a", "b">>, <<"h", "i", "\n">>>>
    /\ rendered = <<<<"a", "b", "a", "b", "h", "i">>>>

\* The three chunks "ab", "c\ndef\ng", "hi\n".
ExampleChunks ==
    <<<<"a", "b">>, <<"c", "\n", "d", "e", "f", "\n", "g">>, <<"h", "i", "\n">>>>

\* C20, as claimed: the three chunks "ab", "c\ndef\ng", "hi\n" yield the
\* two lines "abcdef" and "ghi".
C20_ExampleTwoLines ==
    chunks = ExampleChunks =>
        rendered = <<<<"a", "b", "c", "d", "e", "f">>, <<"g", "h", "i">>>>

\* C20, amended: the three chunks "ab", "c\ndef\ng", "hi\n" yield the
\* three lines "abc", "def" and "ghi", in that order, and leave nothing
\* pending.
C20_ExampleThreeLines ==
    chunks = ExampleChunks =>
        /\ rendered = <<<<"a", "b", "c">>, <<"d", "e", "f">>, <<"g", "h", "i">>>>
        /\ partial = <<>>

\* C20 witness: the three chunks have been read.
C20_Witness == chunks = ExampleChunks /\ Len(rendered) = 3

\* The text behind the last newline of a text: all of it when it has none.
Unterminated(text) ==
    LET newlines == {h \in 1..Len(text) : text[h] = "\n"}
    IN  IF newlines = {} THEN text
        ELSE SubSeq(text, (CHOOSE h \in newlines : \A g \in newlines : g <= h) + 1,
                    Len(text))

\* C21: when the input has ended, the lines handed to the renderer are the
\* newline-terminated lines of the text received and no others, there is
\* one output per such line and it is the output of that line: the text
\* received behind the last newline, which partial still holds, was neither
\* handed to the renderer nor written.
C21_EndDiscardsPending ==
    mainPromise = "fulfilled" =>
        /\ partial = Unterminated(Received(chunks))
        /\ rendered = TerminatedLines(Received(chunks))
        /\ Len(printed) = Len(rendered)
        /\ \A i \in 1..Len(printed) : printed[i] = prettyPrintLogObject(rendered[i]).text

\* C21 witness: the input ended behind text that no newline follows, after
\* a line that was written.
C21_Witness ==
    /\ mainPromise = "fulfilled"
    /\ partial = <<"g">>
    /\ rendered = <<<<"c">>, <<"d", "e", "f">>>>
    /\ Len(printed) = 2

(***************************************************************************)
(* Properties of the renderer of the pretty printer.                       *)
(***************************************************************************)
\* The escape sequences the color functions write.
Decorations ==
    {"ESC[90m", "ESC[34m", "ESC[32m", "ESC[33m", "ESC[31m", "ESC[35m", "ESC[36m",
     "ESC[37m", "ESC[39m"}

\* A written text without its decoration.
Plain(text) == SelectSeq(text, LAMBDA c : c \notin Decorations)

\* The type each key of a LogRecord must hold, as typeof names it; null is
\* not taken for an object.
RecordKeys == {"level", "level_n", "namespace", "message", "context"}

TypeOfKey(key) ==
    CASE key = "level_n" -> {"number"}
      [] key = "context" -> {"object", "array"}
      [] OTHER -> {"string"}

\* A parsed value that is no LogRecord: no object, or an object in which a
\* key of a LogRecord is missing or holds a value of the wrong type.
FailsShape(v) ==
    \/ v.kind # "object"
    \/ \E key \in RecordKeys :
           \/ \A i \in 1..Len(v.props) : v.props[i][1] # Chars(key)
           \/ \E i \in 1..Len(v.props) :
                  /\ v.props[i][1] = Chars(key)
                  /\ v.props[i][2].kind \notin TypeOfKey(key)

\* The line is no JSON, or JSON that is no LogRecord.
Malformed(line) ==
    \E p \in {JSONParse(line)} : ~p.ok \/ FailsShape(p.v)

\* C22: every line handed to the renderer that is no valid JSON, or valid
\* JSON that fails the shape of a LogRecord, is written as it is, its
\* decoration aside.
C22_MalformedPassThrough ==
    /\ Len(printed) = Len(rendered)
    /\ \A i \in 1..Len(rendered) :
           Malformed(rendered[i]) => Plain(printed[i]) = rendered[i]

\* C22 witness: a record without context, a record whose level_n is a
\* string and a line that is no JSON have been written, in gray.
C22_Witness ==
    /\ ~noColor
    /\ \E i, j, h \in 1..Len(printed) :
           /\ rendered[i] = ForeignLine("context", Undefined)
           /\ rendered[j] = Chars("plain text")
           /\ rendered[h] = ForeignLine("level_n", Str(<<"4">>))
           /\ \A g \in {i, j, h} :
                  printed[g] = <<"ESC[90m">> \o rendered[g] \o <<"ESC[39m">>

\* The tag of a severity: its name in capitals, set to the right of five
\* columns, then a blank, the sign > and a blank.
SeverityTag(level) ==
    CASE level = "trace" -> <<"T", "R", "A", "C", "E", " ", ">", " ">>
      [] level = "debug" -> <<"D", "E", "B", "U", "G", " ", ">", " ">>
      [] level = "info" -> <<" ", "I", "N", "F", "O", " ", ">", " ">>
      [] level = "warn" -> <<" ", "W", "A", "R", "N", " ", ">", " ">>
      [] level = "error" -> <<"E", "R", "R", "O", "R", " ", ">", " ">>
      [] level = "fatal" -> <<"F", "A", "T", "A", "L", " ", ">", " ">>

\* The number of blanks a line of text starts with.
LeadingBlanks(l) ==
    CHOOSE n \in 0..Len(l) :
        /\ \A h \in 1..n : l[h] = " "
        /\ n = Len(l) \/ l[n + 1] # " "

\* The block is the context printed with an indentation of two blanks: it
\* reads back as the context; its first and last line are not indented,
\* a second line is indented by two blanks, and from one line to the next
\* the indentation stays or changes by two blanks.
PrettyPrinted(block, context) ==
    LET ls == Split(block, "\n")
    IN  /\ JSONParse(block) = Parsed(context, Len(block) + 1)
        /\ LeadingBlanks(ls[1]) = 0
        /\ LeadingBlanks(ls[Len(ls)]) = 0
        /\ Len(ls) > 1 => LeadingBlanks(ls[2]) = 2
        /\ \A h \in 1..(Len(ls) - 1) :
               LeadingBlanks(ls[h + 1]) - LeadingBlanks(ls[h]) \in {-2, 0, 2}
        /\ context = ExampleContext =>
               block = <<"{", "\n", " ", " ", "\"", "h", "o", "s", "t", "\"", ":", " ",
                         "\"", "d", "b", "1", "\"", ",", "\n", " ", " ", "\"", "r", "e",
                         "t", "r", "y", "\"", ":", " ", "3", "\n", "}">>

\* The output is the tag, the namespace in brackets, a blank, the message,
\* a newline and the context printed with an indentation of two blanks.
RenderedWith(out, tag, v) ==
    LET head == tag \o <<"[">> \o GetProperty(v, Chars("namespace")).s \o <<"]", " ">>
                    \o GetProperty(v, Chars("message")).s \o <<"\n">>
    IN  /\ Len(out) > Len(head)
        /\ SubSeq(out, 1, Len(head)) = head
        /\ PrettyPrinted(SubSeq(out, Len(head) + 1, Len(out)),
                         GetProperty(v, Chars("context")))

\* The lines handed to the renderer that hold a record of the severity.
RecordsOf(level) ==
    {i \in 1..Len(rendered) :
         \E p \in {JSONParse(rendered[i])} :
             /\ p.ok
             /\ ~FailsShape(p.v)
             /\ GetProperty(p.v, Chars("level")).s = Chars(level)}

\* C23, as claimed: a record of one of the six severities is written as the
\* tag of the severity, which is 7 characters long, followed by the
\* namespace in brackets, the message and the context printed with an
\* indentation of two blanks.
C23_SevenCharacterTags ==
    /\ Len(printed) = Len(rendered)
    /\ \A level \in Severities : \A i \in RecordsOf(level) :
           RenderedWith(Plain(printed[i]), SubSeq(SeverityTag(level), 1, 7),
                        JSONParse(rendered[i]).v)

\* C23, amended: a record of one of the six severities is written as the
\* tag of the severity, which is 8 characters long (the name in capitals set
\* to the right of five columns, then " > "), followed by the namespace in
\* brackets, a blank, the message, a newline and the context printed with
\* an indentation of two blanks.
C23_EightCharacterTags ==
    /\ Len(printed) = Len(rendered)
    /\ \A level \in Severities : Len(SeverityTag(level)) = 8
    /\ \A level \in Severities : \A i \in RecordsOf(level) :
           RenderedWith(Plain(printed[i]), SeverityTag(level), JSONParse(rendered[i]).v)

\* C23 witness: a record of every severity has been written, in colors, and
\* so has a record with a nested context.
C23_Witness ==
    /\ ~noColor
    /\ \A level \in Severities : RecordsOf(level) # {}
    /\ \E i \in RecordsOf("info") :
           /\ rendered[i] = WireLine("info", NestedContext, TRUE)
           /\ SubSeq(printed[i], 1, 11)
                  = <<"ESC[32m", " ", "I", "N", "F", "O", " ", ">", " ", "ESC[39m", "[">>

\* The lines handed to the renderer that hold a record whose level is none
\* of the six severities.
UnknownLevelRecords ==
    {i \in 1..Len(rendered) :
         \E p \in {JSONParse(rendered[i])} :
             /\ p.ok
             /\ ~FailsShape(p.v)
             /\ \A level \in Severities :
                    GetProperty(p.v, Chars("level")).s # Chars(level)}

\* C24: a record that passes the shape check with a level that is none of
\* the six severities is written as the namespace in brackets, the message
\* and the context block, with no tag in front; it is not written as the
\* line it came from, and main is not rejected.
C24_UnknownLevelWithoutTag ==
    /\ Len(printed) = Len(rendered)
    /\ mainPromise # "rejected"
    /\ \A i \in UnknownLevelRecords :
           /\ RenderedWith(Plain(printed[i]), <<>>, JSONParse(rendered[i]).v)
           /\ Plain(printed[i]) # rendered[i]

\* C24 witness: the record of level "verbose" has been written, starting
\* with the bracket.
C24_Witness ==
    \E i \in UnknownLevelRecords :
        /\ rendered[i] = WireLine("verbose", Obj(<<>>), FALSE)
        /\ Plain(printed[i])
               = <<"[">> \o Chars("my-app.db") \o <<"]", " ">> \o Chars("hello")
                     \o <<"\n", "{", "}">>

\* The tag of the level of a record: empty when it is none of the six.
TagOf(v) ==
    IF \E level \in Severities : GetProperty(v, Chars("level")).s = Chars(level)
    THEN SeverityTag(CHOOSE level \in Severities :
                         GetProperty(v, Chars("level")).s = Chars(level))
    ELSE <<>>

\* C25: main is never rejected, and after every chunk there is one output
\* for each line assembled from the input so far, in the order of the
\* lines: the line itself when it is no record, the rendering of the record
\* when it is one (decoration aside).
C25_OneOutputPerLine ==
    /\ mainPromise # "rejected"
    /\ rendered = TerminatedLines(Received(chunks))
    /\ Len(printed) = Len(rendered)
    /\ \A i \in 1..Len(rendered) :
           IF Malformed(rendered[i])
           THEN Plain(printed[i]) = rendered[i]
           ELSE RenderedWith(Plain(printed[i]), TagOf(JSONParse(rendered[i]).v),
                             JSONParse(rendered[i]).v)

\* C25 witness: an empty line, text that is no JSON, a number, null, an
\* array, a foreign object and records of the six severities have each
\* been written once, fifteen outputs for fifteen lines.
C25_Witness ==
    /\ \A line \in {<<>>, Chars("plain text"), <<"5">>, Chars("null"), <<"[", "1", "]">>,
                    <<"{", "}">>, WireLine("fatal", ExampleContext, FALSE)} :
           \E i \in 1..Len(printed) : rendered[i] = line
    /\ Len(chunks) = 2
    /\ Len(printed) = 15
    /\ partial = <<>>

\* The text holds no newline.
NoNewline(text) == \A h \in 1..Len(text) : text[h] # "\n"

\* C26: after every chunk, partial holds no newline and is the text
\* received behind the last newline of the input so far (empty when that
\* text is empty or ends with a newline), and no line handed to the
\* renderer holds a newline.
C26_PendingIsUnterminatedTail ==
    /\ NoNewline(partial)
    /\ partial = Unterminated(Received(chunks))
    /\ (Received(chunks) = <<>> \/ Received(chunks)[Len(Received(chunks))] = "\n")
           => partial = <<>>
    /\ \A i \in 1..Len(rendered) : NoNewline(rendered[i])

\* C26 witness: after the chunks "ab" and "c\ndef\ng", two lines have been
\* handed on and partial holds "g".
C26_Witness ==
    /\ chunks = <<<<"a", "b">>, <<"c", "\n", "d", "e", "f", "\n", "g">>>>
    /\ rendered = <<<<"a", "b", "c">>, <<"d", "e", "f">>>>
    /\ partial = <<"g">>

RECURSIVE Bytes(_)
\* The bytes of the chunks read, in order.
Bytes(read) == IF read = <<>> THEN <<>> ELSE Head(read) \o Bytes(Tail(read))

\* C27: the lines handed to the renderer are those of the text that the
\* bytes received so far decode to as one sequence, however the bytes were
\* cut into chunks: no character is lost, doubled or replaced.
C27_LinesIndependentOfChunking ==
    rendered = TerminatedLines(Decode(Bytes(chunks)))

(***************************************************************************)
(* The Logger and the pretty printer together.                             *)
(***************************************************************************)
\* C28: every line a Logger with the default formatter and the default
\* serializer has written is taken for a record by the pretty printer: its
\* try block ends without throwing, so the line is not passed through.
C28_WrittenLinesAreRecords ==
    (formatLog = "defaultFormatLog" /\ jsonValueSerializer = "defaultJsonValueSerializer")
        => \A i \in 1..Len(sink) :
               /\ TryBlock(sink[i]).tag = "string"
               /\ ~Malformed(sink[i])

(***************************************************************************)
(* Properties of the serializer as JSON.stringify calls it.                *)
(***************************************************************************)
\* What the context of a call is written as when every value in it, at
\* every depth, has gone through the default serializer.
NormalizedContext(context) ==
    CASE context = NestedCall[3] ->
             Obj(<<<<Chars("k"),
                     Obj(<<<<Chars("j"),
                             Obj(<<<<Chars("a"), Str(Chars("Int8Array") \o <<"(", "2", ")">>)>>,
                                   <<Chars("m"), Str(ToISOString(1))>>>>)>>,
                           <<Chars("f"), Str(Chars("f(a, b)"))>>>>)>>,
                   <<Chars("m"),
                     Arr(<<Arr(<<Obj(<<<<Chars("k"), Str(<<"/", "a", "/", "g">>)>>>>)>>),
                           Obj(<<<<Chars("message"),
                                   Obj(<<<<Chars("k"),
                                           Str(Chars("Uint8Array") \o <<"(", "1", ")">>)>>>>)>>,
                                 <<Chars("name"), Str(Chars("Error"))>>>>),
                           Str(<<"-", "1">>)>>)>>>>)
      [] context = DeepCall[3] ->
             Obj(<<<<Chars("k"),
                     Arr(<<Obj(<<<<Chars("j"),
                                   Obj(<<<<Chars("m"),
                                           Arr(<<Str(ToISOString(0)),
                                                 Str(Chars("Symbol") \o <<"(", "a", ")">>),
                                                 Str(Chars("WeakMap"))>>)>>>>)>>>>)>>)>>>>)

\* C29: the line of every call that wrote holds, as its context, the
\* context of the call with every Map, Set, Error, Date, typed array,
\* callable, bigint, symbol and regular expression in it normalized, at
\* every depth below the containers that normalization built; and no such
\* call throws.
C29_NormalizedAtEveryDepth ==
    \A i \in CallIds :
        /\ ~calls[i].threw
        /\ Wrote(i) =>
               \E p \in {JSONParse(LineOf(i))} :
                   /\ p.ok
                   /\ GetProperty(p.v, Chars("context")) = NormalizedContext(passed[i])

\* C29 witness: both calls have written their lines.
C29_Witness ==
    /\ Len(calls) = 2
    /\ Wrote(1) /\ Wrote(2)
    /\ passed = <<NestedCall[3], DeepCall[3]>>

\* C30: when the default serializer is called with the value it has just
\* returned, it returns that value unchanged; and whatever it returns is a
\* string, a plain object, an array, or the very value it was given.
C30_IdempotentOnResults ==
    [][/\ (normOut.tag = "value" /\ normArg' = normOut.v) => normOut' = Return(normOut.v)
       /\ normOut'.tag = "value" =>
              \/ normOut'.v.kind \in {"string", "object", "array"}
              \/ normOut'.v = normArg']_vars

\* C30 witness: the object the serializer built from a Map has been handed
\* to the serializer again, which returned it unchanged.
C30_Witness ==
    /\ normArg = Obj(<<<<Chars("k"), Num(1)>>, <<Chars("j"), DateValue(TRUE, 0)>>>>)
    /\ normOut = Return(normArg)

====
